---- MODULE Spec2Model ----
(***************************************************************************)
(* A model of geomeppy's polygon engine (geomeppy/geom/polygons.py,        *)
(* geomeppy/geom/vectors.py) and of the set_wwr recipe                     *)
(* (geomeppy/recipes.py).                                                  *)
(*                                                                         *)
(* Numbers: Python floats are modelled as exact rationals [n, d] in lowest *)
(* terms with d > 0, so == on floats is structural equality here.          *)
(* A vector is a sequence of rationals (Vector2D.args / Vector3D.args), a  *)
(* polygon is the sequence of its vertices (Polygon.vertices).             *)
(***************************************************************************)
EXTENDS Integers, Sequences, FiniteSets, TLC

VARIABLES
    subject,       \* the receiver polygon (S, P, A): a sequence of vertices
    clip,          \* the argument polygon (C, H, B)
    outside_pt,    \* the point argument: the outside point of the vertex-ordering
                   \* calls, the vector of P + v, the point of point.closest(P)
    rules,         \* the geometry rules passed to the vertex-ordering calls
    op,            \* the operation that was called last
    result,        \* what it returned or raised
    engine_runs,   \* calls of the clipping engine's Execute made by op
    engine_order,  \* the engine's implementation-defined ring order
    idf,           \* the building model of the recipes: its surfaces and subsurfaces
    vector         \* a Vector2D / Vector3D object: args and the attributes x, y, z

vars == <<subject, clip, outside_pt, rules, op, result, engine_runs, engine_order,
          idf, vector>>

(***************************************************************************)
(* Rational arithmetic (the float operations of the source).               *)
(***************************************************************************)
Abs(i) == IF i < 0 THEN -i ELSE i

RECURSIVE GCD(_, _)
GCD(a, b) == IF b = 0 THEN a ELSE GCD(b, a % b)

Rat(num, den) ==
    LET s == IF den < 0 THEN -1 ELSE 1
        g == GCD(Abs(num), Abs(den))
    IN  [n |-> (s * num) \div g, d |-> (s * den) \div g]

R(i) == [n |-> i, d |-> 1]

\* (whole numbers are summed and multiplied without reducing the fraction)
RAdd(a, b) ==
    IF a.d = 1 /\ b.d = 1 THEN [n |-> a.n + b.n, d |-> 1]
    ELSE Rat(a.n * b.d + b.n * a.d, a.d * b.d)
RSub(a, b) ==
    IF a.d = 1 /\ b.d = 1 THEN [n |-> a.n - b.n, d |-> 1]
    ELSE Rat(a.n * b.d - b.n * a.d, a.d * b.d)
RMul(a, b) ==
    IF a.d = 1 /\ b.d = 1 THEN [n |-> a.n * b.n, d |-> 1]
    ELSE Rat(a.n * b.n, a.d * b.d)
RDiv(a, b) == Rat(a.n * b.d, a.d * b.n)
RNeg(a) == [n |-> -a.n, d |-> a.d]
RAbs(a) == [n |-> Abs(a.n), d |-> a.d]
\* (fractions over one denominator are compared by their numerators)
RLt(a, b) == IF a.d = b.d THEN a.n < b.n ELSE a.n * b.d < b.n * a.d
RLe(a, b) == IF a.d = b.d THEN a.n <= b.n ELSE a.n * b.d <= b.n * a.d

\* a Python list: built once, element by element
list(s) == s \o <<>>

RECURSIVE RSumFrom(_, _)
RSumFrom(s, i) == IF i > Len(s) THEN R(0) ELSE RAdd(s[i], RSumFrom(s, i + 1))

RSum(s) == RSumFrom(s, 1)

(***************************************************************************)
(* vectors.py                                                              *)
(***************************************************************************)
\* Vector3D(x, y, z) from integer coordinates
Vector3D(x, y, z) == <<R(x), R(y), R(z)>>
Vector2D(x, y) == <<R(x), R(y)>>

\* Vector2D.__sub__ / __add__ / __neg__ (componentwise over len(self))
VecSub(a, b) == list([i \in 1..Len(a) |-> RSub(a[i], b[i])])
VecAdd(a, b) == list([i \in 1..Len(a) |-> RAdd(a[i], b[i])])
inverse_vector(v) == list([i \in 1..Len(v) |-> RNeg(v[i])])

\* np.dot on two vectors
Dot(a, b) == RSum([i \in 1..Len(a) |-> RMul(a[i], b[i])])

\* relative_distance: the squared length of pt1 - pt2
relative_distance(pt1, pt2) ==
    LET direction == VecSub(pt1, pt2)
    IN  RSum([i \in 1..Len(direction) |-> RMul(direction[i], direction[i])])

\* normalise_vector: divide by the sum of the absolute components.
\* magnitude = 0 makes the division raise ZeroDivisionError (see Degenerate).
Magnitude(v) == RSum([i \in 1..Len(v) |-> RAbs(v[i])])

normalise_vector(v) == list([i \in 1..Len(v) |-> RDiv(v[i], Magnitude(v))])

(***************************************************************************)
(* utilities.almostequal(first, second, places=7): floats are near-equal   *)
(* when round(abs(second - first), places) == 0; iterables are compared    *)
(* element by element.                                                     *)
(***************************************************************************)
Places == 7

RECURSIVE Pow10(_)
Pow10(k) == IF k = 0 THEN 1 ELSE 10 * Pow10(k - 1)

\* round(x, places) == 0  <=>  |x| < 1 / (2 * 10^places)
almostequal(a, b) ==
    LET diff == RAbs(RSub(b, a))
    IN  diff.n <= (diff.d - 1) \div (2 * Pow10(Places))

almostequal_vec(u, v) ==
    \A i \in 1..(IF Len(u) < Len(v) THEN Len(u) ELSE Len(v)) : almostequal(u[i], v[i])

\* Vector2D.__eq__: zip the components, any pair that differs makes it False
Vector_eq(u, v) ==
    \A i \in 1..(IF Len(u) < Len(v) THEN Len(u) ELSE Len(v)) : u[i] = v[i]

(***************************************************************************)
(* polygons.py: plane attributes of a Polygon3D                            *)
(***************************************************************************)
\* the ring successor index, (i + 1) % len(poly), on 1-based sequences
NextIdx(i, n) == (i % n) + 1

NewellSum_first_corner(poly) ==
    LET term(i, a, b) ==
            RMul(RSub(poly[i][a], poly[NextIdx(i, 3)][a]),
                 RAdd(poly[i][b], poly[NextIdx(i, 3)][b]))
    IN  << RSum([i \in 1..3 |-> term(i, 2, 3)]),
           RSum([i \in 1..3 |-> term(i, 3, 1)]),
           RSum([i \in 1..3 |-> term(i, 1, 2)]) >>

\* The three sums of Newell's method, before normalisation.
NewellSum(poly) ==
    LET n == Len(poly)
        term(i, a, b) ==
            RMul(RSub(poly[i][a], poly[NextIdx(i, n)][a]),
                 RAdd(poly[i][b], poly[NextIdx(i, n)][b]))
    IN  << RSum([i \in 1..n |-> term(i, 2, 3)]),
           RSum([i \in 1..n |-> term(i, 3, 1)]),
           RSum([i \in 1..n |-> term(i, 1, 2)]) >>

\* normalise_vector divides by magnitude: a zero Newell sum raises
\* ZeroDivisionError out of every caller of normal_vector.
Degenerate(poly) == Magnitude(NewellSum(poly)) = R(0)

normal_vector(poly) == normalise_vector(NewellSum(poly))

\* Polygon.normal_vector: the 2D polygon lifted to z = 0
Lift(poly2d) == list([i \in 1..Len(poly2d) |-> <<poly2d[i][1], poly2d[i][2], R(0)>>])

Polygon_normal_vector(poly2d) == normal_vector(Lift(poly2d))

Degenerate2D(poly2d) == Degenerate(Lift(poly2d))

\* Polygon3D.distance: normal . first vertex
distance(poly) == Dot(normal_vector(poly), poly[1])

\* Polygon3D.projection_axis: max(range(3), key=|normal[i]|), the first
\* index (0-based) that attains the maximum
first_largest(nv) ==
    CHOOSE i \in 0..2 :
        /\ \A j \in 0..2 : RLe(RAbs(nv[j + 1]), RAbs(nv[i + 1]))
        /\ \A j \in 0..(i - 1) : RLt(RAbs(nv[j + 1]), RAbs(nv[i + 1]))

projection_axis(poly) == first_largest(normal_vector(poly))

\* project(pt, proj_axis): the coordinates of pt other than proj_axis
project(pt, proj_axis) ==
    LET keep == SelectSeq(<<0, 1, 2>>, LAMBDA i : i # proj_axis)
    IN  list([k \in 1..2 |-> pt[keep[k] + 1]])

\* Polygon3D.project_to_2D
project_to_2D(poly) ==
    LET ax == projection_axis(poly)
    IN  list([i \in 1..Len(poly) |-> project(poly[i], ax)])

\* project_inv(pt, proj_axis, a, v): insert 0.0 at proj_axis, then solve
\* v . w = a for that coordinate
InsertZero(pt, proj_axis) ==
    list([i \in 1..3 |-> IF i - 1 < proj_axis THEN pt[i]
                    ELSE IF i - 1 = proj_axis THEN R(0)
                    ELSE pt[i - 1]])

project_inv_no_divide(pt, proj_axis, a, v) ==
    LET w == InsertZero(pt, proj_axis)
        c == RSub(a, Dot(w, v))
    IN  [w EXCEPT ![proj_axis + 1] = c]

project_inv(pt, proj_axis, a, v) ==
    LET w == InsertZero(pt, proj_axis)
        c == RDiv(RSub(a, Dot(w, v)), v[proj_axis + 1])
    IN  [w EXCEPT ![proj_axis + 1] = c]

\* Polygon.project_to_3D(example3d)
project_to_3D(poly2d, example3d) ==
    LET proj_axis == projection_axis(example3d)
        a == distance(example3d)
        v == normal_vector(example3d)
    IN  list([i \in 1..Len(poly2d) |-> project_inv(poly2d[i], proj_axis, a, v)])

invert_orientation_keep_first(poly) ==
    list([i \in 1..Len(poly) |-> IF i = 1 THEN poly[1] ELSE poly[Len(poly) + 1 - i]])

\* Polygon.invert_orientation: the vertices reversed
invert_orientation(poly) ==
    list([i \in 1..Len(poly) |-> poly[Len(poly) + 1 - i]])

\* Polygon3D.is_clockwise(viewpoint)
is_clockwise(poly, viewpoint) ==
    RLt(R(0), Dot(VecSub(poly[1], viewpoint), normal_vector(poly)))

\* Polygon3D.is_coplanar(other)
\* the two planes (normal, distance) are the same up to the sign of both
same_plane_same_way(n1, d1, n2, d2) == almostequal_vec(n1, n2) /\ almostequal(d1, d2)

same_plane(n1, d1, n2, d2) ==
    \/ almostequal_vec(n1, n2) /\ almostequal(d1, d2)
    \/ almostequal_vec(n1, inverse_vector(n2)) /\ almostequal(d1, RNeg(d2))

is_coplanar(poly, other) ==
    same_plane(normal_vector(poly), distance(poly),
               normal_vector(other), distance(other))

(***************************************************************************)
(* The clipping engine (pyclipper, external).  Modelled from its contract: *)
(* Execute(op, PFT_NONZERO, PFT_NONZERO) returns the rings bounding the    *)
(* set of points selected by op from the non-zero-winding interiors of the *)
(* subject and clip paths; outer rings counter-clockwise, holes clockwise, *)
(* collinear vertices removed.                                             *)
(*                                                                         *)
(* The engine works on integer points.  The model is exact for paths whose *)
(* vertices are lattice points with coordinates >= 0 and whose edges run   *)
(* along the lines x = i, y = j, x + y = 2k, x - y = 2k: these lines cut   *)
(* the plane into triangles (two per unit cell), and every region the      *)
(* engine can produce from such paths is a union of these triangles.       *)
(***************************************************************************)
\* the side of the grid the operand shapes are drawn on
GridMax == 3

\* pc.scale_to_clipper on a Polygon.vertices_list: the engine's integers
\* are the coordinates times 2^31, truncated; a path of whole coordinates
\* is kept exactly and is written here in whole units.
scale_to_clipper(poly2d) == list([i \in 1..Len(poly2d) |-> <<poly2d[i][1].n, poly2d[i][2].n>>])

\* pc.scale_from_clipper followed by Polygon(r)
scale_from_clipper(path) == list([i \in 1..Len(path) |-> Vector2D(path[i][1], path[i][2])])

\* an edge the triangulation carries (or an empty edge)
EdgeInClass(p, q) ==
    LET dx == q[1] - p[1]
        dy == q[2] - p[2]
    IN  \/ dx = 0
        \/ dy = 0
        \/ Abs(dx) = Abs(dy) /\ (p[1] + p[2]) % 2 = 0

\* the 2D polygons the engine model accepts
Clippable(poly2d) ==
    /\ \A i \in 1..Len(poly2d) :
          /\ poly2d[i][1].d = 1 /\ poly2d[i][2].d = 1
          /\ poly2d[i][1].n >= 0 /\ poly2d[i][2].n >= 0
    /\ LET path == scale_to_clipper(poly2d)
       IN  \A i \in 1..Len(path) : EdgeInClass(path[i], path[NextIdx(i, Len(path))])

\* the largest coordinate of a path
Extent(path) ==
    LET S == {0} \cup { path[i][1] : i \in 1..Len(path) }
                 \cup { path[i][2] : i \in 1..Len(path) }
    IN  CHOOSE m \in S : \A k \in S : k <= m

\* the triangles of the cells of 0..n x 0..n, each as its three corners
\* counter-clockwise
Triangles(n) ==
    UNION { IF (i + j) % 2 = 0
            THEN { << <<i, j>>, <<i + 1, j>>, <<i + 1, j + 1>> >>,
                   << <<i, j>>, <<i + 1, j + 1>>, <<i, j + 1>> >> }
            ELSE { << <<i, j>>, <<i + 1, j>>, <<i, j + 1>> >>,
                   << <<i + 1, j>>, <<i + 1, j + 1>>, <<i, j + 1>> >> }
          : i \in 0..(n - 1), j \in 0..(n - 1) }

\* winding number of the path around the centroid of a triangle
\* (all coordinates times 3, so that the centroid is a lattice point)
RECURSIVE WindingFrom(_, _, _)
WindingFrom(path, q, i) ==
    IF i > Len(path) THEN 0
    ELSE LET p1 == path[i]
             p2 == path[NextIdx(i, Len(path))]
             isLeft == (3 * p2[1] - 3 * p1[1]) * (q[2] - 3 * p1[2])
                       - (q[1] - 3 * p1[1]) * (3 * p2[2] - 3 * p1[2])
             w == IF 3 * p1[2] <= q[2]
                  THEN (IF 3 * p2[2] > q[2] /\ isLeft > 0 THEN 1 ELSE 0)
                  ELSE (IF 3 * p2[2] <= q[2] /\ isLeft < 0 THEN -1 ELSE 0)
         IN  w + WindingFrom(path, q, i + 1)

Winding(path, tri) ==
    WindingFrom(path, <<tri[1][1] + tri[2][1] + tri[3][1],
                        tri[1][2] + tri[2][2] + tri[3][2]>>, 1)

\* PFT_NONZERO: the filled region of a path
Filled(path) == { t \in Triangles(Extent(path)) : Winding(path, t) # 0 }

\* the region each clip type selects
Selected(ct, s, c) ==
    CASE ct = "CT_UNION" -> s \cup c
      [] ct = "CT_INTERSECTION" -> s \cap c
      [] ct = "CT_DIFFERENCE" -> s \ c

ClipRegion(ct, subj, clp) == Selected(ct, Filled(subj), Filled(clp))

\* the directed boundary of a region, the region on its left
TriEdges(t) == { <<t[1], t[2]>>, <<t[2], t[3]>>, <<t[3], t[1]>> }

Boundary(region) ==
    LET all == UNION { TriEdges(t) : t \in region }
    IN  { e \in all : <<e[2], e[1]>> \notin all }

\* compass direction of a boundary edge, in eighths of a turn
Dir(e) ==
    LET dx == e[2][1] - e[1][1]
        dy == e[2][2] - e[1][2]
    IN  CASE dx > 0 /\ dy = 0 -> 0
          [] dx > 0 /\ dy > 0 -> 1
          [] dx = 0 /\ dy > 0 -> 2
          [] dx < 0 /\ dy > 0 -> 3
          [] dx < 0 /\ dy = 0 -> 4
          [] dx < 0 /\ dy < 0 -> 5
          [] dx = 0 /\ dy < 0 -> 6
          [] dx > 0 /\ dy < 0 -> 7

\* left turn from edge e to edge f, in eighths, in -3..4
Turn(e, f) ==
    LET t == (Dir(f) - Dir(e) + 8) % 8
    IN  IF t > 4 THEN t - 8 ELSE t

\* the boundary edge that follows e around the same ring: the leftmost
\* turn, which keeps rings that touch at a point apart
Follow(E, e) ==
    CHOOSE f \in E :
        /\ f[1] = e[2]
        /\ \A g \in E : g[1] = e[2] => Turn(e, g) <= Turn(e, f)

RECURSIVE TraceRing(_, _, _, _)
TraceRing(E, start, cur, acc) ==
    IF cur = start /\ acc # <<>> THEN acc
    ELSE TraceRing(E, start, Follow(E, cur), Append(acc, cur))

\* lexicographic order on points and edges, to list rings in a fixed order
PtLess(p, q) == p[1] < q[1] \/ (p[1] = q[1] /\ p[2] < q[2])

EdgeLess(e, f) == PtLess(e[1], f[1]) \/ (e[1] = f[1] /\ PtLess(e[2], f[2]))

Range(s) == { s[i] : i \in 1..Len(s) }

\* drop the vertices at which the ring goes straight on
Corners(ring) ==
    LET n == Len(ring)
        prev(i) == IF i = 1 THEN n ELSE i - 1
        keep == SelectSeq([i \in 1..n |-> i],
                          LAMBDA i : Dir(ring[prev(i)]) # Dir(ring[i]))
    IN  list([k \in 1..Len(keep) |-> ring[keep[k]][1]])

\* the least edge of a set of boundary edges
FirstEdge(E) == CHOOSE e \in E : \A f \in E : f = e \/ EdgeLess(e, f)

\* the ring through the edge start
RingAt(E, start) == TraceRing(E, start, start, <<>>)

RECURSIVE Rings(_)
RECURSIVE RingsFrom(_, _)
\* the ring traced from the least edge, then the rings of the other edges
RingsFrom(E, ring) == <<Corners(ring)>> \o Rings(E \ Range(ring))

Rings(E) == IF E = {} THEN <<>> ELSE RingsFrom(E, RingAt(E, FirstEdge(E)))

\* The order of the rings and the vertex each ring starts at are the
\* engine's own choice: either as traced, or the list reversed with every
\* ring started one vertex later.
EngineOrders == {"as_traced", "reversed"}

RotateLeft(s, k) == list([i \in 1..Len(s) |-> s[((i - 1 + k) % Len(s)) + 1]])

Reverse(s) == list([i \in 1..Len(s) |-> s[Len(s) + 1 - i]])

\* clipper.Execute(ct, pc.PFT_NONZERO, pc.PFT_NONZERO) on the two paths
EngineOrdered(rings) ==
    IF engine_order = "as_traced" THEN rings
    ELSE Reverse(list([i \in 1..Len(rings) |-> RotateLeft(rings[i], 1)]))

Execute(ct, subj, clp) == EngineOrdered(Rings(Boundary(ClipRegion(ct, subj, clp))))

(***************************************************************************)
(* 2D boolean operations                                                   *)
(***************************************************************************)
\* process_clipped_2D_polys
process_clipped_2D_polys(results) ==
    IF results # <<>>
    THEN list([i \in 1..Len(results) |-> scale_from_clipper(results[i])])
    ELSE <<>>

\* the loop that closes union_2D_polys, intersect_2D_polys and
\* difference_2D_polys: a ring whose normal is not poly1's is inverted
orient_2D(polys, poly1) ==
    LET n1 == Polygon_normal_vector(poly1)
    IN  list([i \in 1..Len(polys) |->
            IF Vector_eq(Polygon_normal_vector(polys[i]), n1)
            THEN polys[i]
            ELSE invert_orientation(polys[i])])

\* prep_2D_polys + Execute + process_clipped_2D_polys
clipped_2D(ct, poly1, poly2) ==
    process_clipped_2D_polys(
        Execute(ct, scale_to_clipper(poly1), scale_to_clipper(poly2)))

union_2D_polys(poly1, poly2) == orient_2D(clipped_2D("CT_UNION", poly1, poly2), poly1)

intersect_2D_polys(poly1, poly2) ==
    orient_2D(clipped_2D("CT_INTERSECTION", poly1, poly2), poly1)

difference_2D_polys(poly1, poly2) ==
    orient_2D(clipped_2D("CT_DIFFERENCE", poly1, poly2), poly1)

\* the comparison poly.normal_vector == poly1.normal_vector is reached only
\* when the engine returned a ring; poly1.normal_vector then divides by zero
\* for a poly1 without area
Raises_2D(ct, poly1, poly2) ==
    clipped_2D(ct, poly1, poly2) # <<>> /\ Degenerate2D(poly1)

(***************************************************************************)
(* 3D boolean operations                                                   *)
(***************************************************************************)
\* prep_3D_polys: False when the polygons are not coplanar, otherwise a
\* clipper loaded with the two polygons, each flattened by project_to_2D
prep_3D_polys_unchecked(poly1, poly2) ==
    [clipper |-> TRUE,
     subj |-> scale_to_clipper(project_to_2D(poly1)),
     clp |-> scale_to_clipper(project_to_2D(poly2))]

prep_3D_polys(poly1, poly2) ==
    IF ~is_coplanar(poly1, poly2)
    THEN [clipper |-> FALSE]
    ELSE [clipper |-> TRUE,
          subj |-> scale_to_clipper(project_to_2D(poly1)),
          clp |-> scale_to_clipper(project_to_2D(poly2))]

\* process_clipped_3D_polys
process_clipped_3D_polys_example(results, example3d) ==
    IF results # <<>>
    THEN list([i \in 1..Len(results) |->
             project_to_3D(scale_from_clipper(results[i]), example3d)])
    ELSE <<example3d>>

process_clipped_3D_polys(results, example3d) ==
    IF results # <<>>
    THEN list([i \in 1..Len(results) |->
             project_to_3D(scale_from_clipper(results[i]), example3d)])
    ELSE <<>>

\* "orient to match poly1"
orient_3D_keep(polys, poly1) == polys

orient_3D(polys, poly1) ==
    LET n1 == normal_vector(poly1)
    IN  list([i \in 1..Len(polys) |->
            IF almostequal_vec(normal_vector(polys[i]), n1)
            THEN polys[i]
            ELSE invert_orientation(polys[i])])

\* "if not clipper: return []", else Execute, process and orient
clipped_3D(ct, clipper, poly1) ==
    IF ~clipper.clipper THEN <<>>
    ELSE orient_3D(
             process_clipped_3D_polys(Execute(ct, clipper.subj, clipper.clp), poly1),
             poly1)

clip_3D_polys(ct, poly1, poly2) == clipped_3D(ct, prep_3D_polys(poly1, poly2), poly1)

\* a union that merges nothing
union_3D_polys_apart(poly1, poly2) == <<poly1, poly2>>

union_3D_polys(poly1, poly2) == clip_3D_polys("CT_UNION", poly1, poly2)

intersect_3D_polys_nothing(poly1, poly2) == <<>>

intersect_3D_polys(poly1, poly2) == clip_3D_polys("CT_INTERSECTION", poly1, poly2)

difference_3D_polys(poly1, poly2) == clip_3D_polys("CT_DIFFERENCE", poly1, poly2)

\* is_coplanar takes the normal of both polygons
Raises_3D(poly1, poly2) == Degenerate(poly1) \/ Degenerate(poly2)

(***************************************************************************)
(* Equality                                                                *)
(***************************************************************************)
\* self.__dict__ == other.__dict__: the vertex lists compare equal
SameDict(a, b) == Len(a) = Len(b) /\ \A i \in 1..Len(a) : Vector_eq(a[i], b[i])

\* Polygon.__eq__
Polygon_eq(self, other) ==
    IF SameDict(self, other) THEN TRUE
    ELSE IF difference_2D_polys(self, other) # <<>> THEN FALSE
    ELSE IF Vector_eq(Polygon_normal_vector(self), Polygon_normal_vector(other)) THEN TRUE
    ELSE FALSE

\* Polygon3D.__eq__
Polygon3D_eq(self, other) ==
    IF ~almostequal_vec(normal_vector(self), normal_vector(other)) THEN FALSE
    ELSE IF ~almostequal(distance(self), distance(other)) THEN FALSE
    ELSE Polygon_eq(project_to_2D(self), project_to_2D(other))

(***************************************************************************)
(* Operands                                                                *)
(***************************************************************************)
\* how far a plane is moved off the origin
MaxOffset == 1

\* an axis-parallel rectangle, counter-clockwise from its lower left corner
Rect(x0, y0, x1, y1) == << <<x0, y0>>, <<x1, y0>>, <<x1, y1>>, <<x0, y1>> >>

\* a right triangle with its hypotenuse on a diagonal of the grid
Tri(x0, y0, s) == << <<x0, y0>>, <<x0 + s, y0>>, <<x0 + s, y0 + s>> >>

\* three points on a line: a polygon without area
Flat(x0, y0) == << <<x0, y0>>, <<x0 + 1, y0>>, <<x0 + 2, y0>> >>

\* the clip polygons: every square of the grid, the strips across it, two
\* triangles and a polygon without area
Squares ==
    { Rect(x0, y0, x0 + w, y0 + w) :
        x0 \in 0..(GridMax - 1), y0 \in 0..(GridMax - 1), w \in 1..GridMax }

Strips == { Rect(0, y0, GridMax, y0 + 1) : y0 \in 0..(GridMax - 1) }

Tris == { Tri(0, 0, 2), Tri(1, 1, 2) }

ClipShapes ==
    { r \in Squares : r[3][1] <= GridMax /\ r[3][2] <= GridMax }
    \cup Strips \cup Tris \cup { Flat(1, 1) }

SubjectShapes == { Rect(1, 1, 3, 3), Rect(0, 0, 3, 3) }

\* the planes the operands are placed in: 2D polygons, and 3D polygons in
\* a plane z = h, x = h, y = h or z = x
Planes == { <<"2D", 0>>, <<"tilt", 0>> }
          \cup { <<a, h>> : a \in {"z", "x", "y"}, h \in 0..MaxOffset }

\* the planes of a subject and a clip polygon: the same plane, two parallel
\* planes, or two planes that cross
PlanePairs ==
    { <<p, p>> : p \in { <<"2D", 0>>, <<"tilt", 0>>, <<"z", 0>> } }
    \cup { << <<"y", h>>, <<"y", h>> >> : h \in 1..MaxOffset }
    \cup { << <<"z", 0>>, <<"z", h>> >> : h \in 1..MaxOffset }
    \cup { << <<"z", 0>>, <<"x", 0>> >> }

\* which of the two polygons are given clockwise
Windings == { <<FALSE, FALSE>>, <<TRUE, FALSE>>, <<FALSE, TRUE>> }

Embed(plane, shape) ==
    list([i \in 1..Len(shape) |->
        LET u == shape[i][1]
            v == shape[i][2]
            h == plane[2]
        IN  CASE plane[1] = "2D" -> Vector2D(u, v)
              [] plane[1] = "z" -> Vector3D(u, v, h)
              [] plane[1] = "x" -> Vector3D(h, u, v)
              [] plane[1] = "y" -> Vector3D(u, h, v)
              [] plane[1] = "tilt" -> Vector3D(u, v, u)])

Is3D(poly) == Len(poly[1]) = 3

Oriented(poly, rev) == IF rev THEN invert_orientation(poly) ELSE poly

\* ggr is None (or an empty list): "not ggr" holds
NoRules ==
    [present |-> FALSE, Vertex_Entry_Direction |-> "", Starting_Vertex_Position |-> ""]

NoPoint == <<>>

\* no building model and no vector object are in play
NoIdf == [surfaces |-> <<>>, subsurfaces |-> <<>>]

NoVector == [args |-> <<>>]

(***************************************************************************)
(* Results                                                                 *)
(***************************************************************************)
Returned(kind, value) == [kind |-> kind, value |-> value]

Raised(error, value) == [kind |-> "raised", error |-> error, value |-> value]

NoResult == [kind |-> "none"]

(***************************************************************************)
(* The boolean operations as called on a pair of polygons                  *)
(***************************************************************************)
InitClip ==
    /\ \E pp \in PlanePairs, s \in SubjectShapes, c \in ClipShapes, w \in Windings :
          /\ subject = Oriented(Embed(pp[1], s), w[1])
          /\ clip = Oriented(Embed(pp[2], c), w[2])
    /\ rules = NoRules
    /\ outside_pt = NoPoint
    /\ op = "none"
    /\ result = NoResult
    /\ engine_runs = 0
    /\ engine_order \in EngineOrders
    /\ idf = NoIdf
    /\ vector = NoVector

\* Polygon.union / intersect / difference
Call2D(name, ct) ==
    /\ op = "none"
    /\ ~Is3D(subject)
    /\ Clippable(subject) /\ Clippable(clip)
    /\ op' = name
    /\ engine_runs' = 1
    /\ result' = IF Raises_2D(ct, subject, clip)
                 THEN Raised("ZeroDivisionError", "")
                 ELSE Returned("list", orient_2D(clipped_2D(ct, subject, clip), subject))
    /\ UNCHANGED <<subject, clip, outside_pt, rules, engine_order, idf, vector>>

Polygon_union == Call2D("union", "CT_UNION")

Polygon_intersect == Call2D("intersect", "CT_INTERSECTION")

Polygon_difference == Call2D("difference", "CT_DIFFERENCE")

\* Polygon3D.union / intersect / difference
Call3D(name, ct) ==
    /\ op = "none"
    /\ Is3D(subject)
    /\ op' = name
    /\ IF Raises_3D(subject, clip)
       THEN /\ result' = Raised("ZeroDivisionError", "")
            /\ engine_runs' = 0
       ELSE LET clipper == prep_3D_polys(subject, clip)
            IN  IF ~clipper.clipper
                THEN /\ result' = Returned("list", <<>>)
                     /\ engine_runs' = 0
                ELSE /\ Clippable(project_to_2D(subject))
                     /\ Clippable(project_to_2D(clip))
                     /\ result' = Returned("list", clip_3D_polys(ct, subject, clip))
                     /\ engine_runs' = 1
    /\ UNCHANGED <<subject, clip, outside_pt, rules, engine_order, idf, vector>>

Polygon3D_union == Call3D("union", "CT_UNION")

Polygon3D_intersect == Call3D("intersect", "CT_INTERSECTION")

Polygon3D_difference == Call3D("difference", "CT_DIFFERENCE")

\* the outcome of P.is_coplanar(Q): normal_vector raises for a polygon
\* whose Newell sum is zero
coplanar_call(poly, other) ==
    IF Raises_3D(poly, other)
    THEN Raised("ZeroDivisionError", "")
    ELSE Returned("bool", is_coplanar(poly, other))

CallCoplanar(name, other) ==
    /\ op = "none"
    /\ Is3D(subject)
    /\ op' = name
    /\ result' = coplanar_call(subject, other)
    /\ engine_runs' = 0
    /\ UNCHANGED <<subject, clip, outside_pt, rules, engine_order, idf, vector>>

\* S.is_coplanar(C)
Polygon3D_is_coplanar == CallCoplanar("is_coplanar", clip)

\* S.is_coplanar(S.invert_orientation())
IsCoplanarInverted == CallCoplanar("is_coplanar inverted", invert_orientation(subject))

\* S.is_coplanar(S'), S' the vertex list of S started at another vertex
IsCoplanarRotated ==
    \E k \in 1..(Len(subject) - 1) :
        CallCoplanar("is_coplanar rotated", RotateLeft(subject, k))

NextClip ==
    \/ Polygon_union
    \/ Polygon_intersect
    \/ Polygon_difference
    \/ Polygon3D_union
    \/ Polygon3D_intersect
    \/ Polygon3D_difference
    \/ Polygon3D_is_coplanar
    \/ IsCoplanarInverted
    \/ IsCoplanarRotated

SpecClip == InitClip /\ [][NextClip]_vars

(***************************************************************************)
(* Claims about the boolean operations                                     *)
(***************************************************************************)
BooleanOps == {"union", "intersect", "difference"}

ClipTypeOf(name) ==
    CASE name = "union" -> "CT_UNION"
      [] name = "intersect" -> "CT_INTERSECTION"
      [] name = "difference" -> "CT_DIFFERENCE"

InPlaneOf(v, poly) == Dot(normal_vector(poly), v) = distance(poly)

\* the rings of the engine for the operation, as polygons, before they are
\* oriented
Raw3D(ct, clipper, poly1) ==
    process_clipped_3D_polys(Execute(ct, clipper.subj, clipper.clp), poly1)

\* r is the ring raw, kept when its normal is n1 and reversed otherwise, and
\* its own normal is n1
KeptOrReversed(r, raw, n, n1) ==
    /\ almostequal_vec(n, n1)
    /\ r = (IF almostequal_vec(normal_vector(raw), n1) THEN raw ELSE Reverse(raw))

AllKeptOrReversed3D(results, raws, poly1) ==
    /\ Len(results) = Len(raws)
    /\ \A i \in 1..Len(raws) :
          /\ KeptOrReversed(results[i], raws[i],
                            normal_vector(results[i]), normal_vector(poly1))
          /\ \A k \in 1..Len(results[i]) : InPlaneOf(results[i][k], poly1)

AllKeptOrReversed2D(results, raws, poly1) ==
    /\ Len(results) = Len(raws)
    /\ \A i \in 1..Len(raws) :
          KeptOrReversed(Lift(results[i]), Lift(raws[i]),
                         Polygon_normal_vector(results[i]), Polygon_normal_vector(poly1))

\* C2: every polygon returned by union, intersect or difference has the
\* normal of the subject S: it is a ring of the engine, kept as the engine
\* gave it when its normal is that of S and with its vertices reversed
\* otherwise; in 3D it lies in the plane of S.
C2_ResultsHaveSubjectNormal ==
    (op \in BooleanOps /\ result.kind = "list" /\ result.value # <<>>)
    => IF Is3D(subject)
       THEN AllKeptOrReversed3D(result.value,
                                Raw3D(ClipTypeOf(op), prep_3D_polys(subject, clip), subject),
                                subject)
       ELSE AllKeptOrReversed2D(result.value,
                                clipped_2D(ClipTypeOf(op), subject, clip), subject)

\* a difference that leaves a hole: the outer ring and the ring of the hole
\* come back from the engine with opposite windings, so one was reversed
C2_Witness ==
    /\ op = "difference"
    /\ Is3D(subject)
    /\ result.kind = "list"
    /\ Len(result.value) = 2
    /\ \A i \in 1..2 :
          almostequal_vec(normal_vector(result.value[i]), normal_vector(subject))

(***************************************************************************)
(* The plane attributes and the projections, called on one polygon         *)
(***************************************************************************)
\* the longest side of a rectangle given as an operand
MaxSide == 2

\* a concave polygon
LShape == << <<0, 0>>, <<2, 0>>, <<2, 1>>, <<1, 1>>, <<1, 2>>, <<0, 2>> >>

GeomShapes ==
    { Rect(0, 0, w, h) : w \in 1..MaxSide, h \in 1..MaxSide }
    \cup { Tri(0, 0, 2), LShape, Flat(0, 0) }

\* the planes of the operands: z = h, x = h, y = h, the sloping planes
\* z = x + h, z = 2x + y + h and x - y - z = -h, and the surface
\* z = xy + h, which is not a plane
GeomPlaneKinds == {"z", "x", "y", "slope", "steep", "corner", "warp"}

GeomEmbed(kind, h, shape) ==
    list([i \in 1..Len(shape) |->
        LET u == shape[i][1]
            v == shape[i][2]
        IN  CASE kind = "2D" -> Vector2D(u, v)
              [] kind = "z" -> Vector3D(u, v, h)
              [] kind = "x" -> Vector3D(h, u, v)
              [] kind = "y" -> Vector3D(u, h, v)
              [] kind = "slope" -> Vector3D(u, v, u + h)
              [] kind = "steep" -> Vector3D(u, v, 2 * u + v + h)
              [] kind = "corner" -> Vector3D(u + v, v, u + h)
              [] kind = "warp" -> Vector3D(u, v, u * v + h)])

GeomPolys ==
    { Oriented(RotateLeft(GeomEmbed(kind, h, shape), k), rev) :
        kind \in GeomPlaneKinds, h \in 0..MaxOffset, shape \in GeomShapes,
        k \in 0..5, rev \in BOOLEAN }
    \cup { Oriented(RotateLeft(GeomEmbed("2D", 0, shape), k), rev) :
             shape \in GeomShapes, k \in 0..5, rev \in BOOLEAN }

InitGeom ==
    /\ subject \in GeomPolys
    /\ clip = subject
    /\ rules = NoRules
    /\ outside_pt = NoPoint
    /\ op = "none"
    /\ result = NoResult
    /\ engine_runs = 0
    /\ engine_order = "as_traced"
    /\ idf = NoIdf
    /\ vector = NoVector

Call(name, value) ==
    /\ op' = name
    /\ result' = value
    /\ UNCHANGED <<subject, clip, outside_pt, rules, engine_runs, engine_order, idf, vector>>

\* P.invert_orientation()
InvertOrientation ==
    /\ op = "none"
    /\ Call("invert_orientation", Returned("polygon", invert_orientation(subject)))

\* P.invert_orientation().invert_orientation()
InvertOrientationAgain ==
    /\ op = "invert_orientation"
    /\ Call("invert_orientation_twice",
            Returned("polygon", invert_orientation(result.value)))

\* P.normal_vector
NormalVector ==
    /\ op = "none"
    /\ Is3D(subject)
    /\ Call("normal_vector",
            IF Degenerate(subject) THEN Raised("ZeroDivisionError", "")
            ELSE Returned("vector", normal_vector(subject)))

\* P.project_to_2D()
ProjectTo2D ==
    /\ op = "none"
    /\ Is3D(subject)
    /\ Call("project_to_2D",
            IF Degenerate(subject) THEN Raised("ZeroDivisionError", "")
            ELSE Returned("polygon", project_to_2D(subject)))

\* P.project_to_2D().project_to_3D(P)
ProjectTo3D ==
    /\ op = "project_to_2D"
    /\ result.kind = "polygon"
    /\ Call("project_to_3D", Returned("polygon", project_to_3D(result.value, subject)))

NextGeom ==
    \/ InvertOrientation
    \/ InvertOrientationAgain
    \/ NormalVector
    \/ ProjectTo2D
    \/ ProjectTo3D

SpecGeom == InitGeom /\ [][NextGeom]_vars

\* C3: invert_orientation returns the vertices of P in reversed order, and
\* applied twice it returns the vertex sequence of P.
C3_InvertTwiceIsIdentity ==
    /\ op = "invert_orientation" =>
          /\ Len(result.value) = Len(subject)
          /\ \A i \in 1..Len(subject) :
                result.value[i] = subject[Len(subject) + 1 - i]
    /\ op = "invert_orientation_twice" => result.value = subject

C3_Witness ==
    /\ op = "invert_orientation_twice"
    /\ Len(subject) = 6
    /\ result.value = subject
    /\ invert_orientation(subject) # subject

\* every vertex of the polygon satisfies normal . v = distance
Planar(poly) == \A i \in 1..Len(poly) : InPlaneOf(poly[i], poly)

\* C5: for a coplanar, non-degenerate Polygon3D P,
\* P.project_to_2D().project_to_3D(P) has the vertices of P in the same
\* order; for every non-degenerate P the two coordinates other than
\* P.projection_axis are unchanged and the third is rebuilt so that
\* normal . w = distance.
C5_ProjectRoundTrip ==
    op = "project_to_3D" =>
        /\ Len(result.value) = Len(subject)
        /\ \A i \in 1..Len(subject) :
              /\ \A a \in 0..2 :
                    a # projection_axis(subject)
                        => result.value[i][a + 1] = subject[i][a + 1]
              /\ InPlaneOf(result.value[i], subject)
        /\ Planar(subject) => result.value = subject

C5_Witness ==
    /\ op = "project_to_3D"
    /\ Planar(subject)
    /\ projection_axis(subject) = 0
    /\ normal_vector(subject)[3] # R(0)
    /\ normal_vector(subject)[2] # R(0)
    /\ result.value = subject

\* C6: the normal of a non-degenerate Polygon3D is the same for every
\* cyclic rotation of its vertex list, the normal of invert_orientation()
\* is its negation, and its components sum in absolute value to 1.
C6_NormalRotationAndInversion ==
    (op = "normal_vector" /\ result.kind = "vector") =>
        /\ \A k \in 0..(Len(subject) - 1) :
              normal_vector(RotateLeft(subject, k)) = result.value
        /\ normal_vector(invert_orientation(subject)) = inverse_vector(result.value)
        /\ Magnitude(result.value) = R(1)

C6_Witness ==
    /\ op = "normal_vector"
    /\ result.kind = "vector"
    /\ Len(subject) = 6
    /\ \A a \in 1..3 : result.value[a] # R(0)
    /\ normal_vector(invert_orientation(subject)) = inverse_vector(result.value)

(***************************************************************************)
(* Vertex ordering: bounding box, starting position, entry direction       *)
(***************************************************************************)
\* str.lower() on the strings the rules of the model carry
lower(str) ==
    CASE str = "CounterClockwise" -> "counterclockwise"
      [] str = "Clockwise" -> "clockwise"
      [] str = "UpperLeftCorner" -> "upperleftcorner"
      [] OTHER -> str

Cross(a, b) ==
    << RSub(RMul(a[2], b[3]), RMul(a[3], b[2])),
       RSub(RMul(a[3], b[1]), RMul(a[1], b[3])),
       RSub(RMul(a[1], b[2]), RMul(a[2], b[1])) >>

Scale(c, v) == list([i \in 1..Len(v) |-> RMul(c, v[i])])

\* The frame of the plane-alignment transform for a unit normal zp along an
\* axis: a face that is not horizontal has y' along z, a horizontal face
\* has x' along -x.  For these normals x', y', z' are unit vectors already.
align_z_prime(zp) ==
    LET z_axis == Vector3D(0, 0, 1)
        neg_x_axis == Vector3D(-1, 0, 0)
    IN  IF RLt(RAbs(Dot(zp, z_axis)), Rat(99, 100))
        THEN [xp |-> Cross(z_axis, zp), yp |-> z_axis, zp |-> zp]
        ELSE [xp |-> neg_x_axis, yp |-> Cross(zp, neg_x_axis), zp |-> zp]

\* the vertices in the coordinates of the frame t
to_frame(poly, t) ==
    list([i \in 1..Len(poly) |->
        << Dot(poly[i], t.xp), Dot(poly[i], t.yp), Dot(poly[i], t.zp) >>])

\* the vertices given in the frame t, back in world coordinates
from_frame(poly, t) ==
    list([i \in 1..Len(poly) |->
        VecAdd(VecAdd(Scale(poly[i][1], t.xp), Scale(poly[i][2], t.yp)),
               Scale(poly[i][3], t.zp))])

\* align_face(vertices): the face turned onto the horizontal plane
align_face(poly) == to_frame(poly, align_z_prime(normal_vector(poly)))

\* invert_align_face(original, poly2): poly2 turned back into the plane of
\* original
invert_align_face(original, poly2) ==
    from_frame(poly2, align_z_prime(normal_vector(original)))

RMin(S) == CHOOSE x \in S : \A y \in S : RLe(x, y)

RMax(S) == CHOOSE x \in S : \A y \in S : RLe(y, x)

Coords(poly, a) == { poly[i][a] : i \in 1..Len(poly) }

\* top_left, bottom_left, bottom_right, top_right
box_corners(xs, ys, zs) ==
    << << RMin(xs), RMax(ys), RMax(zs) >>,
       << RMin(xs), RMin(ys), RMin(zs) >>,
       << RMax(xs), RMin(ys), RMin(zs) >>,
       << RMax(xs), RMax(ys), RMax(zs) >> >>

aligned_box(aligned) ==
    box_corners(Coords(aligned, 1), Coords(aligned, 2), Coords(aligned, 3))

\* Polygon.bounding_box: upper left, lower left, lower right, upper right
bounding_box(poly) == invert_align_face(poly, aligned_box(align_face(poly)))

\* the squared distances from pt to the vertices of poly, in order
distances(pt, poly) == list([i \in 1..Len(poly) |-> relative_distance(pt, poly[i])])

\* the first position of the least of the distances ("if sq_d < min_d")
first_least(ds) ==
    CHOOSE i \in 1..Len(ds) :
        /\ \A j \in 1..Len(ds) : RLe(ds[i], ds[j])
        /\ \A j \in 1..(i - 1) : RLt(ds[i], ds[j])

last_least(ds) ==
    CHOOSE i \in 1..Len(ds) :
        /\ \A j \in 1..Len(ds) : RLe(ds[i], ds[j])
        /\ \A j \in (i + 1)..Len(ds) : RLt(ds[i], ds[j])

closest_last(pt, poly) == poly[last_least(distances(pt, poly))]

\* Vector2D.closest: the first vertex at the least squared distance
closest(pt, poly) == poly[first_least(distances(pt, poly))]

\* MutableSequence.index: the first position holding an equal vertex
index(poly, v) ==
    CHOOSE i \in 1..Len(poly) :
        /\ Vector_eq(poly[i], v)
        /\ \A j \in 1..(i - 1) : ~Vector_eq(poly[j], v)

StartingPositions ==
    << "upperleftcorner", "lowerleftcorner", "lowerrightcorner", "upperrightcorner" >>

EntryDirections == {"counterclockwise", "clockwise"}

\* Polygon3D.order_points(starting_position)
order_points(poly, starting_position) ==
    IF \E c \in 1..4 : StartingPositions[c] = starting_position
    THEN LET c == CHOOSE c \in 1..4 : StartingPositions[c] = starting_position
             bbox_corner == bounding_box(poly)[c]
             start_index == index(poly, closest(bbox_corner, poly))
         IN  Returned("polygon", RotateLeft(poly, start_index - 1))
    ELSE Raised("ValueError", starting_position)

\* the point on the other side of the polygon
outside_point_behind(poly, entry_direction) ==
    LET dir == lower(entry_direction)
    IN  CASE dir = "clockwise" ->
                Returned("vector", VecAdd(poly[1], normal_vector(poly)))
          [] dir = "counterclockwise" ->
                Returned("vector", VecSub(poly[1], normal_vector(poly)))
          [] OTHER -> Raised("ValueError", dir)

\* Polygon3D.outside_point(entry_direction)
outside_point(poly, entry_direction) ==
    LET dir == lower(entry_direction)
    IN  CASE dir = "clockwise" ->
                Returned("vector", VecSub(poly[1], normal_vector(poly)))
          [] dir = "counterclockwise" ->
                Returned("vector", VecAdd(poly[1], normal_vector(poly)))
          [] OTHER -> Raised("ValueError", dir)

\* set_entry_direction(poly, outside_pt, ggr)
set_entry_direction_as_given(poly, pt, ggr) == poly

set_entry_direction(poly, pt, ggr) ==
    LET entry_direction ==
            IF ~ggr.present THEN "counterclockwise"
            ELSE lower(ggr.Vertex_Entry_Direction)
    IN  CASE entry_direction = "counterclockwise" ->
                IF is_clockwise(poly, pt) THEN invert_orientation(poly) ELSE poly
          [] entry_direction = "clockwise" ->
                IF ~is_clockwise(poly, pt) THEN invert_orientation(poly) ELSE poly
          [] OTHER -> poly

\* set_starting_position(poly, outside_pt, ggr)
set_starting_position(poly, pt, ggr) ==
    LET starting_position ==
            IF ~ggr.present THEN "upperleftcorner"
            ELSE lower(ggr.Starting_Vertex_Position)
    IN  order_points(poly, starting_position)

\* normalize_coords(poly, outside_pt, ggr)
normalize_coords(poly, pt, ggr) ==
    set_starting_position(set_entry_direction(poly, pt, ggr), pt, ggr)

\* Polygon3D.normalize_coords(ggr), after outside_point has returned or raised
normalize_from(poly, pt, ggr) ==
    IF pt.kind = "raised" THEN pt ELSE normalize_coords(poly, pt.value, ggr)

\* Polygon3D.normalize_coords(ggr)
Polygon3D_normalize_coords(poly, ggr) ==
    normalize_from(poly,
                   outside_point(poly, IF ~ggr.present THEN "counterclockwise"
                                       ELSE ggr.Vertex_Entry_Direction),
                   ggr)

(***************************************************************************)
(* The vertex-ordering entry points, called on one polygon                 *)
(***************************************************************************)
Diamond == << <<1, 0>>, <<2, 1>>, <<1, 2>>, <<0, 1>> >>

OrderShapes == { Rect(0, 0, MaxSide, 1), Tri(0, 0, 2), LShape, Diamond }

\* floors, roofs and walls facing along an axis
OrderPolys ==
    { Oriented(RotateLeft(GeomEmbed(kind, MaxOffset, shape), k), rev) :
        kind \in {"z", "x", "y"}, shape \in OrderShapes,
        k \in 0..5, rev \in BOOLEAN }

Rules(direction, position) ==
    [present |-> TRUE, Vertex_Entry_Direction |-> direction,
     Starting_Vertex_Position |-> position]

\* GlobalGeometryRules objects: recognised values in both spellings, and
\* values that are not recognised
RuleSets ==
    { NoRules }
    \cup { Rules(d, "UpperLeftCorner") :
             d \in {"counterclockwise", "clockwise", "CounterClockwise", "sideways"} }
    \cup { Rules("Clockwise", StartingPositions[c]) : c \in 1..4 }
    \cup { Rules(d, "centre") : d \in {"counterclockwise", "sideways"} }

\* the points a polygon is looked at from: one on either side of its plane
\* and one in its plane
Viewpoints(poly) ==
    { VecAdd(poly[1], normal_vector(poly)), VecSub(poly[1], normal_vector(poly)), poly[2] }

InitOrder ==
    /\ subject \in OrderPolys
    /\ clip = subject
    /\ outside_pt \in Viewpoints(subject)
    /\ rules \in RuleSets
    /\ op = "none"
    /\ result = NoResult
    /\ engine_runs = 0
    /\ engine_order = "as_traced"
    /\ idf = NoIdf
    /\ vector = NoVector

\* P.outside_point(entry_direction), P.outside_point()
OutsidePoint ==
    /\ op = "none"
    /\ Call("outside_point",
            outside_point(subject, IF rules.present THEN rules.Vertex_Entry_Direction
                                   ELSE "counterclockwise"))

\* P.order_points(starting_position)
OrderPoints ==
    /\ op = "none"
    /\ rules.present
    /\ Call("order_points", order_points(subject, rules.Starting_Vertex_Position))

\* P.order_points(c).order_points(c)
OrderPointsAgain ==
    /\ op = "order_points"
    /\ result.kind = "polygon"
    /\ Call("order_points_twice",
            order_points(result.value, rules.Starting_Vertex_Position))

SetEntryDirection ==
    /\ op = "none"
    /\ Call("set_entry_direction",
            Returned("polygon", set_entry_direction(subject, outside_pt, rules)))

SetStartingPosition ==
    /\ op = "none"
    /\ Call("set_starting_position", set_starting_position(subject, outside_pt, rules))

NormalizeCoords ==
    /\ op = "none"
    /\ Call("normalize_coords", normalize_coords(subject, outside_pt, rules))

Polygon3D_NormalizeCoords ==
    /\ op = "none"
    /\ Call("Polygon3D.normalize_coords", Polygon3D_normalize_coords(subject, rules))

NextOrder ==
    \/ OutsidePoint
    \/ OrderPoints
    \/ OrderPointsAgain
    \/ SetEntryDirection
    \/ SetStartingPosition
    \/ NormalizeCoords
    \/ Polygon3D_NormalizeCoords

SpecOrder == InitOrder /\ [][NextOrder]_vars

CornerOf(starting_position) ==
    CHOOSE c \in 1..4 : StartingPositions[c] = starting_position

IsCorner(starting_position) ==
    \E c \in 1..4 : StartingPositions[c] = starting_position

\* the bounding-box corner of poly that starting_position names
NamedCorner(poly, starting_position) ==
    bounding_box(poly)[CornerOf(starting_position)]

\* no vertex of poly is nearer to the corner than v
Nearest(v, poly, corner) ==
    \A i \in 1..Len(poly) :
        RLe(relative_distance(corner, v), relative_distance(corner, poly[i]))

\* C9: for each of the four corner names c, P.order_points(c) is a cyclic
\* rotation of P's vertex list whose first vertex is a vertex of P nearest
\* to the bounding-box corner named c, and order_points(c) applied to the
\* result returns the same vertex list again.
C9_OrderPointsRotatesAndIsIdempotent ==
    /\ (op = "order_points" /\ IsCorner(rules.Starting_Vertex_Position)) =>
          /\ result.kind = "polygon"
          /\ \E k \in 0..(Len(subject) - 1) : result.value = RotateLeft(subject, k)
          /\ Nearest(result.value[1], subject,
                     NamedCorner(subject, rules.Starting_Vertex_Position))
    /\ (op = "order_points_twice" /\ IsCorner(rules.Starting_Vertex_Position)) =>
          /\ result.kind = "polygon"
          /\ result.value = order_points(subject, rules.Starting_Vertex_Position).value

\* two vertices of the polygon are nearest to the corner, the list was
\* rotated, and the second call returned the list of the first
C9_Witness ==
    /\ op = "order_points_twice"
    /\ IsCorner(rules.Starting_Vertex_Position)
    /\ result.value = order_points(subject, rules.Starting_Vertex_Position).value
    /\ result.value # subject
    /\ \E i, j \in 1..Len(subject) :
          /\ subject[i] # subject[j]
          /\ Nearest(subject[i], subject,
                     NamedCorner(subject, rules.Starting_Vertex_Position))
          /\ Nearest(subject[j], subject,
                     NamedCorner(subject, rules.Starting_Vertex_Position))

\* the rule an entry point reads is not one of the recognised values
BadDirection == rules.present /\ lower(rules.Vertex_Entry_Direction) \notin EntryDirections

BadPosition == rules.present /\ ~IsCorner(lower(rules.Starting_Vertex_Position))

\* C10: every vertex-ordering entry point given an entry direction other
\* than clockwise / counterclockwise, or a starting position other than the
\* four corner names, fails with an error naming the bad value; none
\* returns a polygon or falls back to a default.
C10_BadRulesAlwaysFail ==
    /\ (op \in {"outside_point", "set_entry_direction"} /\ BadDirection) =>
          /\ result.kind = "raised"
          /\ result.value = lower(rules.Vertex_Entry_Direction)
    /\ (op \in {"order_points", "set_starting_position"} /\ BadPosition) =>
          /\ result.kind = "raised"
          /\ result.value = lower(rules.Starting_Vertex_Position)
    /\ (op \in {"normalize_coords", "Polygon3D.normalize_coords"}
            /\ (BadDirection \/ BadPosition)) =>
          /\ result.kind = "raised"
          /\ result.value \in {lower(rules.Vertex_Entry_Direction),
                               lower(rules.Starting_Vertex_Position)}

(***************************************************************************)
(* Equality, and a polygon put together again from its pieces              *)
(***************************************************************************)
\* the pairs compared: a square A and a polygon B of the grid, B also as A
\* itself listed from another start vertex
EqShapes ==
    { <<a, b>> : a \in { Rect(0, 0, GridMax, GridMax), Rect(1, 1, GridMax, GridMax) },
                 b \in ClipShapes \ { Flat(1, 1) } }
    \cup { <<a, RotateLeft(a, k)>> : a \in SubjectShapes, k \in 0..1 }

EqPlanePairs ==
    { <<p, p>> : p \in { <<"2D", 0>>, <<"tilt", 0>>, <<"z", 0>>, <<"x", MaxOffset>> } }
    \cup { << <<"z", 0>>, <<"z", MaxOffset>> >>, << <<"z", 0>>, <<"y", 0>> >> }

InitEq ==
    /\ \E pp \in EqPlanePairs, ab \in EqShapes, w \in Windings :
          /\ subject = Oriented(Embed(pp[1], ab[1]), w[1])
          /\ clip = Oriented(Embed(pp[2], ab[2]), w[2])
    /\ rules = NoRules
    /\ outside_pt = NoPoint
    /\ op = "none"
    /\ result = NoResult
    /\ engine_runs = 0
    /\ engine_order \in EngineOrders
    /\ idf = NoIdf
    /\ vector = NoVector

\* A == B
Equals ==
    /\ op = "none"
    /\ Call("__eq__",
            Returned("bool", IF Is3D(subject) THEN Polygon3D_eq(subject, clip)
                             ELSE Polygon_eq(subject, clip)))

\* A.difference(B) + A.intersect(B): the pieces of A
Pieces ==
    /\ op = "none"
    /\ Is3D(subject)
    /\ ~Raises_3D(subject, clip)
    /\ Call("pieces",
            Returned("list", difference_3D_polys(subject, clip)
                             \o intersect_3D_polys(subject, clip)))

\* the first of the other pieces that the first piece unites with into one
\* polygon (0: there is none)
LeastOr0(js) == IF js = {} THEN 0 ELSE CHOOSE j \in js : \A k \in js : j <= k

Mergeable(pieces) ==
    LeastOr0({ j \in 2..Len(pieces) : Len(union_3D_polys(pieces[1], pieces[j])) = 1 })

\* pieces[0].union(pieces[j]), in place of the two
Merged(pieces, j) ==
    union_3D_polys(pieces[1], pieces[j])
    \o SelectSeq(list([k \in 1..Len(pieces) |-> IF k \in {1, j} THEN <<>> ELSE pieces[k]]),
                 LAMBDA piece : piece # <<>>)

Union ==
    /\ op \in {"pieces", "union"}
    /\ Len(result.value) > 1
    /\ \E j \in { Mergeable(result.value) } :
          /\ j # 0
          /\ Call("union", Returned("list", Merged(result.value, j)))

\* U == A and A == U for the polygon U the pieces were united into
EqualsUnion ==
    /\ op \in {"pieces", "union"}
    /\ Len(result.value) = 1
    /\ Call("union == A",
            Returned("bools", << Polygon3D_eq(result.value[1], subject),
                                 Polygon3D_eq(subject, result.value[1]) >>))

\* A == B and B == A
EqualsBothWays ==
    /\ op = "none"
    /\ Call("__eq__ both ways",
            Returned("bools",
                     IF Is3D(subject)
                     THEN << Polygon3D_eq(subject, clip), Polygon3D_eq(clip, subject) >>
                     ELSE << Polygon_eq(subject, clip), Polygon_eq(clip, subject) >>))

NextEq ==
    \/ Equals
    \/ EqualsBothWays
    \/ Pieces
    \/ Union
    \/ EqualsUnion

SpecEq == InitEq /\ [][NextEq]_vars

\* the region a polygon covers, in the 2D coordinates its own projection
\* gives it
Region(poly) ==
    Filled(scale_to_clipper(IF Is3D(poly) THEN project_to_2D(poly) ELSE poly))

\* equal normal and, in 3D, equal distance
SamePlane(a, b) ==
    IF Is3D(a)
    THEN /\ almostequal_vec(normal_vector(a), normal_vector(b))
         /\ almostequal(distance(a), distance(b))
    ELSE Polygon_normal_vector(a) = Polygon_normal_vector(b)

\* C7: two polygons compare equal exactly when they are in the same plane
\* (equal normal and distance) and their 2D projections cover the same
\* shape, whichever vertex starts the list; a polygon that covers only a
\* part of another does not compare equal to it.
C7_EqualExactlyWhenSamePlaneAndShape ==
    op = "__eq__" =>
        (result.value <=> (SamePlane(subject, clip) /\ Region(subject) = Region(clip)))

\* B does not extend outside A
Within(b, a) == is_coplanar(a, b) /\ Region(b) \subseteq Region(a)

\* C4: for coplanar A and B with B not extending outside A, the pieces of
\* A.difference(B) and of A.intersect(B) can be united into one polygon,
\* and that polygon equals A, compared either way round.
C4_PiecesUniteToSubject ==
    /\ (op \in {"pieces", "union"} /\ Within(clip, subject) /\ Len(result.value) > 1)
          => Mergeable(result.value) # 0
    /\ (op = "union == A" /\ Within(clip, subject))
          => result.value = <<TRUE, TRUE>>

\* B is a proper part of A and the pieces, united, compared equal to A
C4_Witness ==
    /\ op = "union == A"
    /\ Within(clip, subject)
    /\ Region(clip) # Region(subject)
    /\ Region(clip) # {}
    /\ result.value = <<TRUE, TRUE>>

(***************************************************************************)
(* polygons.py: break_polygons                                             *)
(***************************************************************************)
\* itertools.product(poly, hole): every pair, the vertices of poly outermost
product(poly, hole) ==
    list([k \in 1..(Len(poly) * Len(hole)) |->
        << poly[((k - 1) \div Len(hole)) + 1], hole[((k - 1) % Len(hole)) + 1] >>])

\* the place sorted() gives the k-th item: behind every smaller key and
\* behind the equal keys that came before it (the sort is stable)
Rank(keys, k) ==
    Cardinality({ j \in 1..Len(keys) :
                    RLt(keys[j], keys[k]) \/ (keys[j] = keys[k] /\ j < k) })

placed(items, ranks) ==
    list([r \in 1..Len(items) |->
        items[CHOOSE k \in 1..Len(items) : ranks[k] = r - 1]])

sorted(items, keys) ==
    placed(items, list([k \in 1..Len(keys) |-> Rank(keys, k)]))

link_keys(pairs) ==
    list([k \in 1..Len(pairs) |-> relative_distance(pairs[k][1], pairs[k][2])])

sorted_links(pairs) == sorted(pairs, link_keys(pairs))

\* links = sorted(product(poly, hole), key=relative_distance)
links(poly, hole) == sorted_links(product(poly, hole))

\* section(first, last, coords): the loop, from item i on
RECURSIVE section_from(_, _, _, _, _)
section_from(first, last, coords, i, section_on_hole) ==
    IF i > Len(coords) THEN section_on_hole
    ELSE IF Vector_eq(coords[i], first)
    THEN section_from(first, last, coords, i + 1, Append(section_on_hole, coords[i]))
    ELSE IF section_on_hole # <<>>
    THEN IF Vector_eq(coords[i], last)
         THEN Append(section_on_hole, coords[i])
         ELSE section_from(first, last, coords, i + 1,
                           Append(section_on_hole, coords[i]))
    ELSE section_from(first, last, coords, i + 1, section_on_hole)

\* the section taken from last to first
section_back(first, last, coords) == section_from(last, first, coords, 1, <<>>)

section(first, last, coords) == section_from(first, last, coords, 1, <<>>)

\* new_poly: the section of poly from links[0][0] to links[1][0], then the
\* section of the reversed hole from links[1][1] to links[0][1]
bridged(poly, hole, lk) ==
    section(lk[1][1], lk[2][1], poly \o poly)
    \o section(lk[2][2], lk[1][2], Reverse(hole \o hole))

\* the two closing tests: a piece whose normal is not poly's is inverted
match_normal(piece, poly) ==
    IF almostequal_vec(normal_vector(piece), normal_vector(poly))
    THEN piece
    ELSE invert_orientation(piece)

\* new_poly2 = poly.difference(union)[0], and the list returned
break_difference(poly, new_poly, differences) ==
    IF differences = <<>>
    THEN Raised("IndexError", "poly.difference(union)[0]")
    ELSE Returned("list", << match_normal(new_poly, poly),
                             match_normal(differences[1], poly) >>)

\* union = hole.union(new_poly); union = union[0]
break_union(poly, new_poly, unions) ==
    IF unions = <<>>
    THEN Raised("IndexError", "union[0]")
    ELSE break_difference(poly, new_poly, difference_3D_polys(poly, unions[1]))

\* break_polygons from new_poly = Polygon3D(new_poly) on
break_polygons_from(poly, hole, new_poly) ==
    IF Raises_3D(hole, new_poly)
    THEN Raised("ZeroDivisionError", "")
    ELSE break_union(poly, new_poly, union_3D_polys(hole, new_poly))


(***************************************************************************)
(* break_polygons as called on a polygon and a hole inside it              *)
(***************************************************************************)
\* a right triangle above its hypotenuse
UpperTri(x0, y0, s) == << <<x0, y0>>, <<x0 + s, y0 + s>>, <<x0, y0 + s>> >>

\* the outer polygons: two squares and an oblong
BreakOuters ==
    { Rect(0, 0, GridMax, GridMax), Rect(0, 0, GridMax + 1, GridMax + 1),
      Rect(0, 0, GridMax + 1, 2 * GridMax) }

\* the holes: triangles and squares, next to a corner or in the middle
BreakHoles ==
    { Tri(1, 1, 1), UpperTri(1, 1, 1), UpperTri(1, 1, 2),
      Rect(1, 1, GridMax - 1, GridMax - 1), Rect(1, 1, GridMax, GridMax) }

\* a vertex list from any of its vertices, either way round
Variants(shape) ==
    { RotateLeft(shape, k) : k \in 0..(Len(shape) - 1) }
    \cup { Reverse(RotateLeft(shape, k)) : k \in 0..(Len(shape) - 1) }

\* every vertex of the hole is strictly inside the rectangle
Inside(hole, outer) ==
    \A i \in 1..Len(hole) :
        /\ hole[i][1] \in 1..(outer[3][1] - 1)
        /\ hole[i][2] \in 1..(outer[3][2] - 1)

BreakPairs ==
    UNION { Variants(p) \X Variants(h) :
              <<p, h>> \in { ph \in BreakOuters \X BreakHoles : Inside(ph[2], ph[1]) } }

BreakPlanes == { <<"z", 0>>, <<"x", MaxOffset>> }

\* the bridged polygon is one the engine model accepts
Bridgeable(hole, new_poly) ==
    IF Raises_3D(hole, new_poly) THEN TRUE ELSE Clippable(project_to_2D(new_poly))

InitBreak ==
    /\ \E pl \in BreakPlanes, ph \in BreakPairs :
          /\ subject = Embed(pl, ph[1])
          /\ clip = Embed(pl, ph[2])
    /\ \E lk \in { links(subject, clip) } :
          \E new_poly \in { bridged(subject, clip, lk) } : Bridgeable(clip, new_poly)
    /\ rules = NoRules
    /\ outside_pt = NoPoint
    /\ op = "none"
    /\ result = NoResult
    /\ engine_runs = 0
    /\ engine_order \in EngineOrders
    /\ idf = NoIdf
    /\ vector = NoVector

BreakPolygons ==
    /\ op = "none"
    /\ \E lk \in { links(subject, clip) } :
          \E new_poly \in { bridged(subject, clip, lk) } :
              Call("break_polygons", break_polygons_from(subject, clip, new_poly))

NextBreak == BreakPolygons

SpecBreak == InitBreak /\ [][NextBreak]_vars

\* the region of a polygon, counted in triangles (half unit cells)
Area(poly) == Cardinality(Region(poly))

\* C8: break_polygons(P, H), for a simple polygon P and a hole H inside P
\* in P's plane, returns exactly two polygons, each with the normal of P,
\* whose areas sum to area(P) - area(H) and that together cover P with H
\* removed.
C8_BreakGivesTwoPiecesOfPolyMinusHole ==
    op = "break_polygons" =>
        /\ result.kind = "list"
        /\ Len(result.value) = 2
        /\ \A i \in 1..2 :
              almostequal_vec(normal_vector(result.value[i]), normal_vector(subject))
        /\ Area(result.value[1]) + Area(result.value[2]) = Area(subject) - Area(clip)
        /\ Region(result.value[1]) \cup Region(result.value[2])
              = Region(subject) \ Region(clip)

(***************************************************************************)
(* polygons.py: Polygon.__add__ / Polygon.__sub__                          *)
(***************************************************************************)
\* Vector2D.__add__ / __sub__: self[i] + other[i] for i in range(len(self))
vector_arith(sign, v, other) == IF sign = "+" THEN VecAdd(v, other) ELSE VecSub(v, other)

\* [v1 + v2 for v1, v2 in zip(self, other)]: other[i] of a shorter vertex
\* raises IndexError
add_polygons(sign, self, other) ==
    IF \E i \in 1..Len(self) : Len(other[i]) < Len(self[i])
    THEN Raised("IndexError", "")
    ELSE Returned("polygon",
                  list([i \in 1..Len(self) |-> vector_arith(sign, self[i], other[i])]))

\* [v + other for v in self]: when other is a polygon, other[i] is a vertex
\* and float + Vector2D raises TypeError
translate(sign, self, other, has_len) ==
    IF has_len
    THEN Raised("TypeError", "")
    ELSE Returned("polygon",
                  list([i \in 1..Len(self) |-> vector_arith(sign, self[i], other)]))

\* Polygon.__add__ / __sub__; has_len is hasattr(other[0], '__len__'): true
\* of the vertices of a polygon, false of the floats of a vector
Polygon_arith(sign, self, other, has_len) ==
    IF Len(self) = Len(other) /\ has_len
    THEN add_polygons(sign, self, other)
    ELSE IF Len(self[1]) = Len(other)
    THEN translate(sign, self, other, has_len)
    ELSE Raised("ValueError", <<"Incompatible objects", self, other>>)

\* the operands: polygons of two to six vertices, in 2D and in 3D
Segment == << <<0, 0>>, <<1, 1>> >>

ArithShapes == { Segment, Tri(0, 0, 1), Rect(0, 0, 1, 1), Rect(0, 0, MaxSide, 1), LShape }

ArithPolys == { Embed(pl, sh) : pl \in { <<"2D", 0>>, <<"z", MaxOffset>> }, sh \in ArithShapes }

ArithVectors == { Vector2D(1, 2), Vector3D(1, 2, 3) }

InitArith ==
    /\ subject \in ArithPolys
    /\ clip \in ArithPolys
    /\ outside_pt \in ArithVectors
    /\ rules = NoRules
    /\ op = "none"
    /\ result = NoResult
    /\ engine_runs = 0
    /\ engine_order = "as_traced"
    /\ idf = NoIdf
    /\ vector = NoVector

\* P + Q
Polygon_add ==
    /\ op = "none"
    /\ Call("__add__", Polygon_arith("+", subject, clip, TRUE))

\* P - Q
Polygon_sub ==
    /\ op = "none"
    /\ Call("__sub__", Polygon_arith("-", subject, clip, TRUE))

\* P + v
Polygon_add_vector ==
    /\ op = "none"
    /\ Call("__add__ vector", Polygon_arith("+", subject, outside_pt, FALSE))

\* P - v
Polygon_sub_vector ==
    /\ op = "none"
    /\ Call("__sub__ vector", Polygon_arith("-", subject, outside_pt, FALSE))

NextArith ==
    \/ Polygon_add
    \/ Polygon_sub
    \/ Polygon_add_vector
    \/ Polygon_sub_vector

SpecArith == InitArith /\ [][NextArith]_vars

\* every vertex of poly moved by v (sign "+") or by -v (sign "-")
Moved(poly, sign, v) ==
    list([i \in 1..Len(poly) |->
        list([k \in 1..Len(poly[i]) |->
            IF sign = "+" THEN RAdd(poly[i][k], v[k]) ELSE RSub(poly[i][k], v[k])])])

\* C11: P + Q and P - Q on polygons with different vertex counts raise the
\* incompatible-objects ValueError naming both operands, whatever the
\* vertex counts and dimensions (also when Q has as many vertices as P's
\* vertices have coordinates); a right-hand side that is one vector of P's
\* dimension translates every vertex.
C11_UnequalPolygonsRaiseValueError ==
    /\ (op \in {"__add__", "__sub__"} /\ Len(subject) # Len(clip))
          => /\ result.kind = "raised"
             /\ result.error = "ValueError"
             /\ result.value = <<"Incompatible objects", subject, clip>>
    /\ (op = "__add__ vector" /\ Len(outside_pt) = Len(subject[1]))
          => /\ result.kind = "polygon"
             /\ result.value = Moved(subject, "+", outside_pt)
    /\ (op = "__sub__ vector" /\ Len(outside_pt) = Len(subject[1]))
          => /\ result.kind = "polygon"
             /\ result.value = Moved(subject, "-", outside_pt)

(***************************************************************************)
(* set_entry_direction and the winding seen from the viewpoint             *)
(***************************************************************************)
\* the direction asked for: 'counterclockwise' when there are no rules
Desired == IF ~rules.present THEN "counterclockwise" ELSE lower(rules.Vertex_Entry_Direction)

\* the viewpoint is off the plane of the polygon
OffPlane(poly, viewpoint) == Dot(VecSub(poly[1], viewpoint), normal_vector(poly)) # R(0)

\* P is reversed exactly when its observed winding is not the desired one
ReversedWhenMismatched ==
    result.value = IF is_clockwise(subject, outside_pt) # (Desired = "clockwise")
                   THEN Reverse(subject)
                   ELSE subject

\* C12 as stated: for 'counterclockwise' (the default) and 'clockwise',
\* set_entry_direction returns a polygon whose winding seen from the
\* viewpoint is the desired one, reversing P exactly when its observed
\* winding does not match.
C12_ResultWindingMatchesFromAnyViewpoint ==
    (op = "set_entry_direction" /\ Desired \in {"counterclockwise", "clockwise"})
        => /\ is_clockwise(result.value, outside_pt) = (Desired = "clockwise")
           /\ ReversedWhenMismatched

\* C12: for 'counterclockwise' (the default) and 'clockwise',
\* set_entry_direction reverses P exactly when its winding observed from
\* the viewpoint does not match; for a viewpoint off P's plane the result
\* is then clockwise from the viewpoint exactly when 'clockwise' was asked.
C12_ResultWindingMatchesOffPlane ==
    (op = "set_entry_direction" /\ Desired \in {"counterclockwise", "clockwise"})
        => /\ OffPlane(subject, outside_pt)
                => is_clockwise(result.value, outside_pt) = (Desired = "clockwise")
           /\ ReversedWhenMismatched

\* a polygon seen counterclockwise from a point off its plane was reversed
\* to be clockwise
C12_Witness ==
    /\ op = "set_entry_direction"
    /\ Desired = "clockwise"
    /\ OffPlane(subject, outside_pt)
    /\ ~is_clockwise(subject, outside_pt)
    /\ result.value = Reverse(subject)
    /\ is_clockwise(result.value, outside_pt)

(***************************************************************************)
(* is_coplanar                                                             *)
(***************************************************************************)
\* the two polygons have the same normal and distance, or the negated ones
SameOrOppositePlane(p, q) ==
    \/ /\ almostequal_vec(normal_vector(p), normal_vector(q))
       /\ almostequal(distance(p), distance(q))
    \/ /\ almostequal_vec(normal_vector(p), inverse_vector(normal_vector(q)))
       /\ almostequal(distance(p), RNeg(distance(q)))

\* C13: P.is_coplanar(Q) is true exactly when normal and distance of P and
\* Q are equal, or are each other's negation, within tolerance; a polygon
\* is coplanar with its own invert_orientation() and with every cyclic
\* rotation of its vertex list.
C13_CoplanarIffSameOrOppositePlane ==
    /\ (op = "is_coplanar" /\ result.kind = "bool")
          => (result.value <=> SameOrOppositePlane(subject, clip))
    /\ (op \in {"is_coplanar inverted", "is_coplanar rotated"} /\ ~Degenerate(subject))
          => (result.kind = "bool" /\ result.value)

\* a polygon off the origin was found coplanar with its inverted self
C13_Witness ==
    /\ op = "is_coplanar inverted"
    /\ distance(subject) # R(0)
    /\ result.kind = "bool"
    /\ result.value

(***************************************************************************)
(* Operations whose result region is empty                                 *)
(***************************************************************************)
\* the polygon as the path handed to the engine
EnginePath(poly) ==
    scale_to_clipper(IF Is3D(poly) THEN project_to_2D(poly) ELSE poly)

\* the engine was run by op and the region op selects is empty: it has no
\* rings to return
NoRings ==
    /\ op \in BooleanOps
    /\ engine_runs = 1
    /\ ClipRegion(ClipTypeOf(op), EnginePath(subject), EnginePath(clip)) = {}

AdjacentRects ==
    LET beside == { <<Rect(x0, y0, x1, y1), Rect(x1, y0, x2, y1)>> :
                        x0 \in 0..0, x1 \in 1..(GridMax - 1), x2 \in 2..GridMax,
                        y0 \in 0..1, y1 \in 1..GridMax }
        stacked == { <<Rect(x0, y0, x1, y1), Rect(x0, y1, x1, y2)>> :
                        y0 \in 0..0, y1 \in 1..(GridMax - 1), y2 \in 2..GridMax,
                        x0 \in 0..1, x1 \in 1..GridMax }
        pairs == { ab \in beside \cup stacked :
                        /\ ab[1][1][1] < ab[1][3][1] /\ ab[1][1][2] < ab[1][3][2]
                        /\ ab[2][1][1] < ab[2][3][1] /\ ab[2][1][2] < ab[2][3][2] }
    IN  pairs \cup { <<ab[2], ab[1]>> : ab \in pairs }

AdjacentPlanes == { <<"z", 0>>, <<"tilt", 0>>, <<"x", MaxOffset>> }

InitAdjacent ==
    /\ \E pl \in AdjacentPlanes, ab \in AdjacentRects, w \in Windings :
          /\ subject = Oriented(Embed(pl, ab[1]), w[1])
          /\ clip = Oriented(Embed(pl, ab[2]), w[2])
    /\ rules = NoRules
    /\ outside_pt = NoPoint
    /\ op = "none"
    /\ result = NoResult
    /\ engine_runs = 0
    /\ engine_order \in EngineOrders
    /\ idf = NoIdf
    /\ vector = NoVector

Vertices(poly) == { poly[i] : i \in 1..Len(poly) }

\* the vertex next to poly[m] in the ring of poly that is not a vertex of other
Across(poly, m, other) ==
    LET prev == poly[((m + Len(poly) - 2) % Len(poly)) + 1]
        next == poly[(m % Len(poly)) + 1]
    IN  IF prev \in Vertices(other) THEN next ELSE prev

\* the rectangle two rectangles with a common side make up, wound as a:
\* each corner of a on the common side moves to the far corner of b
Combined(a, b) ==
    list([i \in 1..Len(a) |->
        IF a[i] \in Vertices(b)
        THEN Across(b, CHOOSE m \in 1..Len(b) : b[m] = a[i], a)
        ELSE a[i]])

\* U = A.union(B), then U[0] == R for a rotation R of the combined rectangle
UnionOfAdjacent ==
    /\ op = "none"
    /\ \E k \in 0..(Len(subject) - 1), U \in { union_3D_polys(subject, clip) } :
          Call("union == combined",
               Returned("union",
                        [count |-> Len(U),
                         rotation |-> k,
                         equal |-> IF U = <<>> THEN FALSE
                                   ELSE Polygon3D_eq(U[1], RotateLeft(Combined(subject, clip), k))]))

NextAdjacent ==
    \/ UnionOfAdjacent

SpecAdjacent == InitAdjacent /\ [][NextAdjacent]_vars

\* C15: the union of two coplanar rectangles that share a full edge is a
\* list of exactly one polygon, and that polygon is equal under Polygon3D's
\* == to the combined rectangle in every rotation of its vertex list.
C15_UnionOfAdjacentIsCombined ==
    op = "union == combined" => (result.value.count = 1 /\ result.value.equal)

\* the unit squares at x in [0,1] and x in [1,2] in the plane z = 0 were
\* united and the result compared with a rotation of the 2 x 1 rectangle
C15_Witness ==
    /\ op = "union == combined"
    /\ subject = Embed(<<"z", 0>>, Rect(0, 0, 1, 1))
    /\ clip = Embed(<<"z", 0>>, Rect(1, 0, 2, 1))
    /\ result.value.rotation = 1
    /\ result.value.count = 1
    /\ result.value.equal

(***************************************************************************)
(* point.closest(collection)                                               *)
(***************************************************************************)
ClosestPlanes == { <<"2D", 0>>, <<"z", 0>>, <<"x", MaxOffset>> }

\* the collections: the vertices of a polygon, from either of two starts
ClosestPolys ==
    { Embed(pl, RotateLeft(shape, k)) :
          pl \in ClosestPlanes,
          shape \in { Rect(0, 0, w, h) : w \in 1..MaxSide, h \in 1..MaxSide }
                    \cup { Tri(0, 0, 2) },
          k \in 0..1 }

\* the points of the grid with as many coordinates as the vertices
ClosestPoints(poly) ==
    IF Is3D(poly)
    THEN { Vector3D(x, y, z) : x \in 0..MaxSide, y \in 0..MaxSide, z \in 0..MaxSide }
    ELSE { Vector2D(x, y) : x \in 0..MaxSide, y \in 0..MaxSide }

InitClosest ==
    /\ subject \in ClosestPolys
    /\ outside_pt \in ClosestPoints(subject)
    /\ clip = subject
    /\ rules = NoRules
    /\ op = "none"
    /\ result = NoResult
    /\ engine_runs = 0
    /\ engine_order = "as_traced"
    /\ idf = NoIdf
    /\ vector = NoVector

\* point.closest(P)
Vector2D_closest ==
    /\ op = "none"
    /\ Call("closest", Returned("point", closest(outside_pt, subject)))

NextClosest ==
    \/ Vector2D_closest

SpecClosest == InitClosest /\ [][NextClosest]_vars

\* the sum of the squares of the differences of the coordinates
SquaredDistance(p, q) ==
    RSum(list([i \in 1..Len(p) |-> RMul(RSub(p[i], q[i]), RSub(p[i], q[i]))]))

\* position i of the collection is the first at the least squared distance
FirstNearest(pt, poly, i) ==
    /\ \A j \in 1..Len(poly) :
          RLe(SquaredDistance(pt, poly[i]), SquaredDistance(pt, poly[j]))
    /\ \A j \in 1..(i - 1) :
          RLt(SquaredDistance(pt, poly[i]), SquaredDistance(pt, poly[j]))

\* C16: point.closest(collection) returns an element of the collection at
\* the least squared Euclidean distance from point, and of several elements
\* at that distance the one that comes first in the collection.
C16_ClosestIsFirstNearest ==
    op = "closest" =>
        /\ result.kind = "point"
        /\ \E i \in 1..Len(subject) :
              /\ result.value = subject[i]
              /\ FirstNearest(outside_pt, subject, i)

\* two vertices are at the least distance from the point, and the one
\* that comes first was returned
C16_Witness ==
    /\ op = "closest"
    /\ \E i, j \in 1..Len(subject) :
          /\ i < j
          /\ result.value = subject[i]
          /\ FirstNearest(outside_pt, subject, i)
          /\ SquaredDistance(outside_pt, subject[j]) = SquaredDistance(outside_pt, subject[i])

(***************************************************************************)
(* What a call does to the vertex lists of its receiver and argument       *)
(***************************************************************************)
\* list.reverse() on the vertex list
after_reverse(vertices) == Reverse(vertices)

\* a vertex list that a method has read (iterated, indexed, passed to
\* reversed() or to a constructor, which builds new vectors from it)
after_reading(vertices) == vertices

\* a receiver with an argument: two 3D polygons in the same plane or in
\* planes that cross, or a 2D polygon with the 3D polygon it is lifted to
FramePairs ==
    { <<Oriented(Embed(p1, a), rev), Embed(p2, b)>> :
          p1 \in { <<"2D", 0>>, <<"z", 0>>, <<"x", MaxOffset>> },
          p2 \in { <<"z", 0>>, <<"x", MaxOffset>> },
          a \in SubjectShapes,
          b \in { Rect(0, 0, 2, 2), Rect(1, 1, 3, 3), Rect(2, 0, 3, 3) },
          rev \in BOOLEAN }

InitFrame ==
    /\ \E pq \in FramePairs : subject = pq[1] /\ clip = pq[2]
    /\ rules \in { r \in RuleSets : r.present }
    /\ outside_pt = NoPoint
    /\ op = "none"
    /\ result = NoResult
    /\ engine_runs = 0
    /\ engine_order = "as_traced"
    /\ idf = NoIdf
    /\ vector = NoVector

NonMutatingOps ==
    { "invert_orientation", "order_points", "normalize_coords", "project_to_2D",
      "project_to_3D", "union", "intersect", "difference", "__add__", "__sub__",
      "__eq__" }

MutatingOps == { "insert", "__delitem__", "__setitem__" }

\* what P.name(Q) returns
outcome(name, P, Q, ggr) ==
    CASE name = "invert_orientation" -> Returned("polygon", invert_orientation(P))
      [] name = "order_points" -> order_points(P, ggr.Starting_Vertex_Position)
      [] name = "normalize_coords" -> Polygon3D_normalize_coords(P, ggr)
      [] name = "project_to_2D" -> Returned("polygon", project_to_2D(P))
      [] name = "project_to_3D" -> Returned("polygon", project_to_3D(P, Q))
      [] name = "union" -> Returned("list", union_3D_polys(P, Q))
      [] name = "intersect" -> Returned("list", intersect_3D_polys(P, Q))
      [] name = "difference" -> Returned("list", difference_3D_polys(P, Q))
      [] name = "__add__" -> Polygon_arith("+", P, Q, TRUE)
      [] name = "__sub__" -> Polygon_arith("-", P, Q, TRUE)
      [] name = "__eq__" -> Returned("bool", Polygon3D_eq(P, Q))

\* P.name(Q) for an operation that returns a new object
NonMutatingCall ==
    /\ op = "none"
    /\ \E name \in NonMutatingOps :
          /\ Is3D(subject) <=> name # "project_to_3D"
          /\ op' = name
          /\ result' = outcome(name, subject, clip, rules)
          /\ subject' = after_reading(subject)
          /\ clip' = after_reading(clip)
    /\ UNCHANGED <<outside_pt, rules, engine_runs, engine_order, idf, vector>>

Mutation(name, vertices) ==
    /\ op = "none"
    /\ op' = name
    /\ subject' = vertices
    /\ result' = Returned("None", "")
    /\ UNCHANGED <<clip, outside_pt, rules, engine_runs, engine_order, idf, vector>>

\* P.insert(key, value)
Polygon_insert ==
    \E key \in 0..Len(subject), value \in { clip[1], clip[3] } :
        Mutation("insert",
                 SubSeq(subject, 1, key) \o <<value>> \o SubSeq(subject, key + 1, Len(subject)))

\* del P[key]
Polygon_delitem ==
    \E key \in 0..(Len(subject) - 1) :
        Mutation("__delitem__",
                 SubSeq(subject, 1, key) \o SubSeq(subject, key + 2, Len(subject)))

\* P[key] = value
Polygon_setitem ==
    \E key \in 0..(Len(subject) - 1), value \in { clip[1], clip[3] } :
        Mutation("__setitem__", [subject EXCEPT ![key + 1] = value])

NextFrame ==
    \/ NonMutatingCall
    \/ Polygon_insert
    \/ Polygon_delitem
    \/ Polygon_setitem

SpecFrame == InitFrame /\ [][NextFrame]_vars

\* C17: invert_orientation, order_points, normalize_coords, project_to_2D,
\* project_to_3D, union, intersect, difference, +, - and == leave the vertex
\* list of the receiver and of the argument polygon as they were; a step
\* that changes a vertex list is an insert, a delete or an item assignment.
C17_OnlyMutatorsChangeVertices ==
    [][ /\ (op' \in NonMutatingOps => (subject' = subject /\ clip' = clip))
        /\ ((subject' # subject \/ clip' # clip) => op' \in MutatingOps) ]_vars

\* invert_orientation returned the reversed list, which differs from the
\* list the receiver still holds
C17_Witness ==
    /\ op = "invert_orientation"
    /\ result.value = Reverse(subject)
    /\ result.value # subject
    /\ \E pq \in FramePairs : subject = pq[1] /\ clip = pq[2]

(***************************************************************************)
(* Polygons that are not a planar figure with area                         *)
(***************************************************************************)
\* the Newell sum of the polygon is zero, or its vertices are not all in
\* one plane
Invalid3D(poly) == IF Degenerate(poly) THEN TRUE ELSE ~Planar(poly)

\* C18: a coplanarity check or a 3D boolean operation on a Polygon3D whose
\* vertices are not in one plane, or whose Newell sum is the zero vector,
\* raises nothing: is_coplanar yields false and union, intersect and
\* difference yield the empty list.
C18_InvalidPolygonsFailGracefully ==
    ( /\ op \in BooleanOps \cup {"is_coplanar"}
      /\ Is3D(subject)
      /\ (Invalid3D(subject) \/ Invalid3D(clip)) )
    => /\ result.kind # "raised"
       /\ op = "is_coplanar" => (result.kind = "bool" /\ result.value = FALSE)
       /\ op \in BooleanOps => (result.kind = "list" /\ result.value = <<>>)

(***************************************************************************)
(* The two sections of the bridged polygon of break_polygons               *)
(***************************************************************************)
InitSection ==
    /\ \E pl \in BreakPlanes, ph \in BreakPairs :
          /\ subject = Embed(pl, ph[1])
          /\ clip = Embed(pl, ph[2])
    /\ rules = NoRules
    /\ outside_pt = NoPoint
    /\ op = "none"
    /\ result = NoResult
    /\ engine_runs = 0
    /\ engine_order = "as_traced"
    /\ idf = NoIdf
    /\ vector = NoVector

\* break_polygons up to new_poly: the links, the two sections and their sum
NewPoly ==
    /\ op = "none"
    /\ \E lk \in { links(subject, clip) } :
          Call("new_poly",
               Returned("sections",
                        [links |-> SubSeq(lk, 1, 2),
                         on_poly |-> section(lk[1][1], lk[2][1], subject \o subject),
                         on_hole |-> section(lk[2][2], lk[1][2], Reverse(clip \o clip)),
                         new_poly |-> bridged(subject, clip, lk)]))

NextSection ==
    \/ NewPoly

SpecSection == InitSection /\ [][NextSection]_vars

\* the position of a vertex in a ring of distinct vertices
PositionIn(ring, v) == CHOOSE i \in 1..Len(ring) : ring[i] = v

\* the vertices of the ring from a round to b, both included
Walk(ring, a, b) ==
    LET i == PositionIn(ring, a)
        n == Len(ring)
        steps == (PositionIn(ring, b) + n - i) % n
    IN  list([k \in 1..(steps + 1) |-> ring[((i + k - 2) % n) + 1]])

\* w goes from a to b through the ring without meeting a vertex twice
WalksOnce(w, ring, a, b) ==
    /\ w = Walk(ring, a, b)
    /\ w[1] = a
    /\ w[Len(w)] = b
    /\ Len(w) <= Len(ring)
    /\ \A i, j \in 1..Len(w) : i # j => w[i] # w[j]

\* C19: in break_polygons the bridged polygon is the section of P followed
\* by the section of H; when the two closest links end at different
\* vertices of P, the section of P is the walk round P from the closest
\* link's vertex to the second link's vertex, and when they end at
\* different vertices of H, the section of H is the walk round H in reverse
\* from the second link's vertex to the closest link's vertex: each starts
\* and ends at those vertices, meets no vertex twice and is no longer than
\* its ring.
C19_SectionsWalkTheRingsOnce ==
    op = "new_poly" =>
        /\ result.value.new_poly = result.value.on_poly \o result.value.on_hole
        /\ result.value.links[1][1] # result.value.links[2][1]
              => WalksOnce(result.value.on_poly, subject,
                           result.value.links[1][1], result.value.links[2][1])
        /\ result.value.links[1][2] # result.value.links[2][2]
              => WalksOnce(result.value.on_hole, Reverse(clip),
                           result.value.links[2][2], result.value.links[1][2])

\* the links end at two vertices of P and at two of H, and the walk round
\* P wraps past the end of its vertex list
C19_Witness ==
    /\ op = "new_poly"
    /\ result.value.links[1][1] # result.value.links[2][1]
    /\ result.value.links[1][2] # result.value.links[2][2]
    /\ PositionIn(subject, result.value.links[2][1])
          < PositionIn(subject, result.value.links[1][1])
    /\ WalksOnce(result.value.on_poly, subject,
                 result.value.links[1][1], result.value.links[2][1])
    /\ WalksOnce(result.value.on_hole, Reverse(clip),
                 result.value.links[2][2], result.value.links[1][2])
    /\ Len(result.value.on_poly) > 2

(***************************************************************************)
(* The axis each operand of a 3D boolean operation is flattened along      *)
(***************************************************************************)
\* an upright wall of height 1 from the origin to (dx, dy)
Wall(dx, dy) ==
    << Vector3D(0, 0, 0), Vector3D(dx, dy, 0), Vector3D(dx, dy, 1), Vector3D(0, 0, 1) >>

\* a slope for which the plane Slant x + (Slant + 1) y + z = 0 has a normal
\* within the tolerance of almostequal of the normal of the plane x + y = 0
Slant == 2 * Pow10(Places) - 1

\* a parallelogram in the plane Slant x + (Slant + 1) y + z = 0
Leaning ==
    << Vector3D(0, 0, 0), Vector3D(1, -1, 1), Vector3D(1, 0, -Slant),
       Vector3D(0, 1, -Slant - 1) >>

\* the operands of SpecClip that are 3D polygons with area, and walls on
\* and next to the plane x + y = 0
PrepPairs ==
    { <<Oriented(Embed(pp[1], s), w[1]), Oriented(Embed(pp[2], c), w[2])>> :
          pp \in { q \in PlanePairs : q[1][1] # "2D" },
          s \in SubjectShapes,
          c \in ClipShapes \ { Flat(1, 1) },
          w \in Windings }
    \cup { <<Oriented(a, w[1]), Oriented(b, w[2])>> :
             a \in { Wall(1, -1), Wall(2, -2) },
             b \in { Wall(2, -2), Leaning, Wall(1, 0) },
             w \in Windings }

InitPrep ==
    /\ \E sc \in PrepPairs : subject = sc[1] /\ clip = sc[2]
    /\ rules = NoRules
    /\ outside_pt = NoPoint
    /\ op = "none"
    /\ result = NoResult
    /\ engine_runs = 0
    /\ engine_order = "as_traced"
    /\ idf = NoIdf
    /\ vector = NoVector

\* prep_3D_polys(S, C): False, or the two paths added to the clipper, each
\* flattened by project_to_2D along the projection_axis of its own polygon
Prep3D ==
    /\ op = "none"
    /\ Call("prep_3D_polys",
            Returned("clipper",
                     [clipper |-> prep_3D_polys(subject, clip),
                      axes |-> << projection_axis(subject), projection_axis(clip) >>]))

NextPrep ==
    \/ Prep3D

SpecPrep == InitPrep /\ [][NextPrep]_vars

\* the polygon without its coordinate along axis, as an engine path
FlattenedAlong(poly, axis) ==
    scale_to_clipper(list([i \in 1..Len(poly) |-> project(poly[i], axis)]))

\* C20: in a 3D boolean operation that passes the coplanarity check the
\* clip polygon C is flattened by dropping the coordinate axis that is
\* dropped for the subject S, S's projection_axis.
C20_ClipFlattenedAlongSubjectAxis ==
    (op = "prep_3D_polys" /\ result.value.clipper.clipper) =>
        /\ result.value.axes[2] = result.value.axes[1]
        /\ result.value.clipper.subj = FlattenedAlong(subject, projection_axis(subject))
        /\ result.value.clipper.clp = FlattenedAlong(clip, projection_axis(subject))

(***************************************************************************)
(* recipes.py: set_wwr on a building model.  The model is the list of its  *)
(* BUILDINGSURFACE:DETAILED objects and the list of its subsurface objects *)
(* in the order itertools.chain yields them; a new object is put at the    *)
(* end.                                                                    *)
(***************************************************************************)
\* Python's None, which "not construction" takes like the empty string
None == "<None>"

\* str.lower() on the keys and field values of the model
str_lower(str) ==
    CASE str = "Wall" -> "wall"
      [] str = "Outdoors" -> "outdoors"
      [] str = "Surface" -> "surface"
      [] str = "WINDOW" -> "window"
      [] str = "DOOR" -> "door"
      [] str = "FENESTRATIONSURFACE:DETAILED" -> "fenestrationsurface:detailed"
      [] OTHER -> str

\* _is_window: True, or None
is_window(subsurface) ==
    str_lower(subsurface.key) \in {"window", "fenestrationsurface:detailed"}

\* external_walls
external_walls(model) ==
    SelectSeq(model.surfaces,
              LAMBDA sf : /\ str_lower(sf.Surface_Type) = "wall"
                          /\ str_lower(sf.Outside_Boundary_Condition) = "outdoors")

\* wall_subsurfaces: the subsurfaces whose Building_Surface_Name is the wall's
wall_subsurfaces(model, wall) ==
    SelectSeq(model.subsurfaces, LAMBDA ss : ss.Building_Surface_Name = wall.Name)

\* {wss.Construction_Name for wss in wall_subsurfaces if _is_window(wss)}
window_constructions(wss) ==
    { wss[i].Construction_Name : i \in { j \in 1..Len(wss) : is_window(wss[j]) } }

\* idf.newidfobject('FENESTRATIONSURFACE:DETAILED', ...) for the wall
new_window(wall, construction) ==
    [key |-> "FENESTRATIONSURFACE:DETAILED",
     Name |-> <<wall.Name, "window">>,
     Surface_Type |-> "Window",
     Construction_Name |-> construction,
     Building_Surface_Name |-> wall.Name]

\* "for ss in wall_subsurfaces: idf.removeidfobject(ss)", then the new
\* window of the wall
replace_subsurfaces(model, wall, wss, construction) ==
    [model EXCEPT !.subsurfaces =
        Append(SelectSeq(model.subsurfaces,
                         LAMBDA ss : \A i \in 1..Len(wss) : ss # wss[i]),
               new_window(wall, construction))]

\* the loop over external_walls from wall i on: the model when the loop
\* ends or an exception leaves it, and the exception
RECURSIVE set_wwr_from(_, _, _, _, _)
set_wwr_from(model, walls, i, construction, force) ==
    IF i > Len(walls) THEN [idf |-> model, raised |-> None]
    ELSE LET wall == walls[i]
             wss == wall_subsurfaces(model, wall)
             constructions == window_constructions(wss)
         IN  IF (\E k \in 1..Len(wss) : ~is_window(wss[k])) /\ ~force
             THEN [idf |-> model, raised |-> "ValueError"]
             ELSE IF wss # <<>> /\ construction \in {None, ""}
             THEN IF Cardinality(constructions) > 1
                  THEN [idf |-> model, raised |-> "ValueError"]
                  ELSE IF constructions = {}
                  THEN [idf |-> model, raised |-> "IndexError"]
                  ELSE set_wwr_from(
                           replace_subsurfaces(model, wall, wss,
                                               CHOOSE c \in constructions : TRUE),
                           walls, i + 1, CHOOSE c \in constructions : TRUE, force)
             ELSE set_wwr_from(replace_subsurfaces(model, wall, wss, construction),
                               walls, i + 1, construction, force)

set_wwr(model, construction, force) ==
    set_wwr_from(model, external_walls(model), 1, construction, force)

(***************************************************************************)
(* set_wwr as called on small building models                              *)
(***************************************************************************)
Surface(name, type, boundary) ==
    [Name |-> name, Surface_Type |-> type, Outside_Boundary_Condition |-> boundary]

SubSurface(key, wall, nr, construction) ==
    [key |-> key, Name |-> <<wall, nr>>, Surface_Type |-> key,
     Construction_Name |-> construction, Building_Surface_Name |-> wall]

\* what a wall may carry: nothing, windows of one or of two constructions,
\* a door, a window and a door
Fittings(wall) ==
    { <<>>,
      << SubSurface("WINDOW", wall, "1", "Glass") >>,
      << SubSurface("FENESTRATIONSURFACE:DETAILED", wall, "1", "Glass"),
         SubSurface("WINDOW", wall, "2", "Glass") >>,
      << SubSurface("WINDOW", wall, "1", "Glass"),
         SubSurface("FENESTRATIONSURFACE:DETAILED", wall, "2", "Tinted") >>,
      << SubSurface("DOOR", wall, "1", "Timber") >>,
      << SubSurface("WINDOW", wall, "1", "Glass"), SubSurface("DOOR", wall, "2", "Timber") >> }

\* two external walls and a party wall
Buildings ==
    { [surfaces |-> << Surface("North", "Wall", "Outdoors"),
                       Surface("Party", "Wall", "Surface"),
                       Surface("South", "wall", "outdoors") >>,
       subsurfaces |-> n \o p \o s] :
          n \in Fittings("North"),
          p \in { <<>>, << SubSurface("DOOR", "Party", "1", "Timber") >> },
          s \in Fittings("South") }

InitWwr ==
    /\ idf \in Buildings
    /\ subject = <<>>
    /\ clip = <<>>
    /\ rules = NoRules
    /\ outside_pt = NoPoint
    /\ op = "none"
    /\ result = NoResult
    /\ engine_runs = 0
    /\ engine_order = "as_traced"
    /\ vector = NoVector

\* set_wwr(idf, construction=construction, force=force)
Set_wwr ==
    /\ op = "none"
    /\ \E construction \in {None, "Low-E"}, force \in BOOLEAN :
          \E done \in { set_wwr(idf, construction, force) } :
              /\ op' = "set_wwr"
              /\ idf' = done.idf
              /\ result' = IF done.raised = None
                           THEN Returned("None", [construction |-> construction, force |-> force])
                           ELSE Raised(done.raised, [construction |-> construction, force |-> force])
    /\ UNCHANGED <<subject, clip, outside_pt, rules, engine_runs, engine_order, vector>>

NextWwr ==
    \/ Set_wwr

SpecWwr == InitWwr /\ [][NextWwr]_vars

\* the subsurfaces of the model on the wall named name
On(model, name) ==
    { model.subsurfaces[i] : i \in { j \in 1..Len(model.subsurfaces) :
                                         model.subsurfaces[j].Building_Surface_Name = name } }

ExternalWallNames(model) ==
    { model.surfaces[i].Name : i \in { j \in 1..Len(model.surfaces) :
          /\ str_lower(model.surfaces[j].Surface_Type) = "wall"
          /\ str_lower(model.surfaces[j].Outside_Boundary_Condition) = "outdoors" } }

\* C21: set_wwr(idf, force=True) completes for every model, with or
\* without a construction and whatever subsurfaces the external walls
\* carry; afterwards every external wall has exactly one subsurface, a
\* window named '<wall name> window' attached to it, and none of the
\* subsurfaces it had before.
C21_ForcedSetWwrCompletes ==
    [][ (op' = "set_wwr" /\ result'.value.force) =>
            /\ result'.kind # "raised"
            /\ \A w \in ExternalWallNames(idf) :
                  /\ Cardinality(On(idf', w)) = 1
                  /\ \A ss \in On(idf', w) :
                        /\ ss.Name = <<w, "window">>
                        /\ is_window(ss)
                        /\ ss \notin On(idf, w) ]_vars

\* C24: when set_wwr raises, the model is as it was before the call: no
\* subsurface has been removed and no window has been added.
C24_RaisingSetWwrLeavesModel ==
    [][ (op' = "set_wwr" /\ result'.kind = "raised") => idf' = idf ]_vars

(***************************************************************************)
(* Polygon3D.normalize_coords and the winding of its receiver              *)
(***************************************************************************)
\* the entry direction Polygon3D.normalize_coords hands to outside_point
DirectionOf(ggr) == IF ~ggr.present THEN "counterclockwise" ELSE ggr.Vertex_Entry_Direction

\* C22: Polygon3D.normalize_coords(rules) never reverses the winding of its
\* receiver: seen from the outside point it computes, the polygon already
\* has the desired winding, so set_entry_direction returns it as it is, and
\* the polygon returned is a cyclic rotation of the receiver's vertex list.
C22_NormalizeCoordsKeepsWinding ==
    (op = "Polygon3D.normalize_coords" /\ result.kind = "polygon") =>
        /\ set_entry_direction(subject, outside_point(subject, DirectionOf(rules)).value,
                               rules) = subject
        /\ \E k \in 0..(Len(subject) - 1) : result.value = RotateLeft(subject, k)

\* a clockwise polygon was asked for, and the one returned starts at
\* another vertex of the receiver
C22_Witness ==
    /\ op = "Polygon3D.normalize_coords"
    /\ result.kind = "polygon"
    /\ rules.present
    /\ lower(rules.Vertex_Entry_Direction) = "clockwise"
    /\ result.value # subject
    /\ \E k \in 1..(Len(subject) - 1) : result.value = RotateLeft(subject, k)

(***************************************************************************)
(* Equality taken both ways                                                *)
(***************************************************************************)
\* C23: polygon equality is symmetric: for polygons A and B of the same
\* dimension, A == B has the truth value of B == A.
C23_EqualityIsSymmetric ==
    op = "__eq__ both ways" => result.value[1] = result.value[2]

(***************************************************************************)
(* vectors.py: a vector as an object.  It holds args, itself a list or a   *)
(* tuple, and the attributes x, y and (Vector3D) z set by the constructor. *)
(***************************************************************************)
\* Vector2D.__init__(*args): args = list(args), x and y from args[0], args[1]
Vector2D_init(args) ==
    [class |-> "Vector2D", args |-> args, args_type |-> "list",
     x |-> args[1], y |-> args[2]]

\* Vector3D.__init__(x, y, z): args = (self.x, self.y, self.z), a tuple
Vector3D_init(args) ==
    [class |-> "Vector3D", args |-> <<args[1], args[2], args[3]>>, args_type |-> "tuple",
     x |-> args[1], y |-> args[2], z |-> args[3]]

\* self.__class__(*components)
Vector_new(class, components) ==
    IF class = "Vector3D" THEN Vector3D_init(components) ELSE Vector2D_init(components)

\* the whole number whose square is n, or -1
Root(n) == IF \E r \in 0..n : r * r = n THEN CHOOSE r \in 0..n : r * r = n ELSE -1

\* the sum of the squares of the components is the square of a fraction
HasLength(v) ==
    \E sq \in { RSum(list([i \in 1..Len(v.args) |-> RMul(v.args[i], v.args[i])])) } :
        Root(sq.n) >= 0 /\ Root(sq.d) >= 0

\* Vector2D.length: sum(x ** 2 for x in self.args) ** 0.5
Vector_length(v) ==
    LET sq == RSum(list([i \in 1..Len(v.args) |-> RMul(v.args[i], v.args[i])]))
    IN  Rat(Root(sq.n), Root(sq.d))

\* Vector2D.set_length(new_length): args becomes a new list, x, y, z stay
Vector_set_length(v, new_length) ==
    [v EXCEPT !.args = list([i \in 1..Len(v.args) |->
                                RMul(v.args[i], RDiv(new_length, Vector_length(v)))]),
              !.args_type = "list"]

\* Vector2D.__setitem__(key, value): self.args[key] = value
Vector_setitem(v, key, value) == [v EXCEPT !.args[key + 1] = value]

(***************************************************************************)
(* Sequences of operations on one vector                                   *)
(***************************************************************************)
\* the largest numerator and denominator of a component
MaxComponent == 5

Small(q) == Abs(q.n) <= MaxComponent /\ q.d <= MaxComponent

SmallVector(v) == \A i \in 1..Len(v.args) : Small(v.args[i])

\* the components vectors are made from and moved by
VectorArgs ==
    { Vector2D(3, 4), Vector2D(0, 2), Vector2D(1, 0), Vector2D(0, 0),
      Vector3D(1, 2, 2), Vector3D(0, 0, 1), Vector3D(0, 0, 0) }

InitVector ==
    /\ vector = NoVector
    /\ idf = NoIdf
    /\ subject = <<>>
    /\ clip = <<>>
    /\ rules = NoRules
    /\ outside_pt = NoPoint
    /\ op = "none"
    /\ result = NoResult
    /\ engine_runs = 0
    /\ engine_order = "as_traced"

VectorStep(name, outcome_, v) ==
    /\ op' = name
    /\ result' = outcome_
    /\ vector' = v
    /\ UNCHANGED <<subject, clip, outside_pt, rules, engine_runs, engine_order, idf>>

\* v = Vector2D(x, y), v = Vector3D(x, y, z)
Vector_construct ==
    /\ vector = NoVector
    /\ \E args \in VectorArgs :
          VectorStep("__init__", Returned("None", ""),
                     Vector_new(IF Len(args) = 3 THEN "Vector3D" ELSE "Vector2D", args))

\* v = v + w, v = v - w
Vector_add_sub ==
    /\ vector # NoVector
    /\ \E w \in { a \in VectorArgs : Len(a) = Len(vector.args) }, sign \in {"+", "-"} :
          \E sum \in { Vector_new(vector.class,
                                  IF sign = "+" THEN VecAdd(vector.args, w)
                                  ELSE VecSub(vector.args, w)) } :
              /\ SmallVector(sum)
              /\ VectorStep(IF sign = "+" THEN "__add__" ELSE "__sub__",
                            Returned("vector", sum.args), sum)

\* v = -v
Vector_neg ==
    /\ vector # NoVector
    /\ VectorStep("__neg__", Returned("vector", inverse_vector(vector.args)),
                  Vector_new(vector.class, inverse_vector(vector.args)))

\* v.normalize(), v.set_length(new_length): a vector of length 0 raises
Vector_normalize ==
    /\ vector # NoVector
    /\ HasLength(vector)
    /\ \E new_length \in 1..2 :
          IF Vector_length(vector) = R(0)
          THEN VectorStep(IF new_length = 1 THEN "normalize" ELSE "set_length",
                          Raised("ZeroDivisionError", ""), vector)
          ELSE \E scaled \in { Vector_set_length(vector, R(new_length)) } :
                  /\ SmallVector(scaled)
                  /\ VectorStep(IF new_length = 1 THEN "normalize" ELSE "set_length",
                                Returned("vector", scaled.args), scaled)

\* v[key] = value: a tuple does not take item assignment
Vector_assign ==
    /\ vector # NoVector
    /\ \E key \in 0..(Len(vector.args) - 1), value \in { R(0), R(1) } :
          IF vector.args_type = "tuple"
          THEN VectorStep("__setitem__", Raised("TypeError", ""), vector)
          ELSE VectorStep("__setitem__", Returned("None", ""),
                          Vector_setitem(vector, key, value))

NextVector ==
    \/ Vector_construct
    \/ Vector_add_sub
    \/ Vector_neg
    \/ Vector_normalize
    \/ Vector_assign

SpecVector == InitVector /\ [][NextVector]_vars

\* C25: after any sequence of constructions, additions, subtractions,
\* negations, normalize, set_length and item assignments the attributes of a
\* vector are its components: v.x = v[0], v.y = v[1] and, for a Vector3D,
\* v.z = v[2].
C25_AttributesAreComponents ==
    vector # NoVector =>
        /\ vector.x = vector.args[1]
        /\ vector.y = vector.args[2]
        /\ vector.class = "Vector3D" => vector.z = vector.args[3]

====
